---------------------------- MODULE Spec2Model ----------------------------
(***************************************************************************)
(* A model of the confidential-transaction ledger: the Merkle tree, the    *)
(* block chain, the state manager and the ZK wallet, the linear ring       *)
(* signature and the bit-decomposition range proof.                        *)
(*                                                                         *)
(* Modelling conventions                                                   *)
(*  - SHA-256 digests used as identifiers (transaction hashes, Merkle      *)
(*    nodes, block hashes) are modelled as collision free: a digest is the *)
(*    framed preimage, a sequence of integers <<length>> \o preimage.      *)
(*  - The elliptic-curve group is modelled as the cyclic group Z_q: a      *)
(*    point is its discrete logarithm base G (G = 1, the identity = 0).    *)
(*    The group order q and the amount limits are scaled down from the     *)
(*    curve's 192-bit order and from 10000.                                *)
(*  - hash_to_scalar (SHA-256 reduced mod q) is modelled by a fixed        *)
(*    non-linear mixing function into 0..q-1.                              *)
(***************************************************************************)
EXTENDS Integers, Sequences, FiniteSets, TLC

(***************************************************************************)
(* State.                                                                  *)
(***************************************************************************)
VARIABLES
    q,      \* the order of the curve group the crypto system was built on
    mt,     \* the Merkle run: the tree's transactions, a proof and the verdict
    rs,     \* the ring-signature run: ring, signer, signature and the verdict
    rp,     \* the range-proof run: its inputs, the proof and the verdict
    zk,     \* the encryption and proof runs: inputs, outputs and verdicts
    chain,                  \* Blockchain.chain
    pending_transactions,   \* Blockchain.pending_transactions
    mempool,                \* BlockchainStateManager.mempool
    public_keys_registry,   \* BlockchainStateManager.public_keys_registry
    wallets,                \* per wallet: balance, transactions, spent_nullifiers
    now,                    \* the clock time.time() reads
    ret,                    \* the last call: its arguments and what it returned
    listeners,              \* BlockchainStateManager.listeners
    notified,               \* the callbacks invoked so far, in order
    threads                 \* per client thread: where it is in its call

harness == <<mt, rs, rp, zk>>

ledger == <<chain, pending_transactions, mempool, public_keys_registry, wallets, now, ret, listeners, notified, threads>>

observers == <<listeners, notified>>

vars == <<q, mt, rs, rp, zk, chain, pending_transactions, mempool,
          public_keys_registry, wallets, now, ret, listeners, notified, threads>>

(***************************************************************************)
(* Bounds of the model.                                                    *)
(***************************************************************************)
MerkleMaxTxs == 6

RingMaxSize == 3

RangeMaxHi == 3

(***************************************************************************)
(* Python's None.                                                          *)
(***************************************************************************)
None == 0 - 1

Get(tx, key) == IF key \in DOMAIN tx THEN tx[key] ELSE None

RECURSIVE Flatten(_)
Flatten(ss) == IF ss = <<>> THEN <<>> ELSE Head(ss) \o Flatten(Tail(ss))

Reverse(s) == [i \in 1..Len(s) |-> s[Len(s) + 1 - i]]

(***************************************************************************)
(* SHA-256 as a collision-free digest: the framed preimage.                *)
(***************************************************************************)
sha256(pre) == <<Len(pre)>> \o pre

(***************************************************************************)
(* json.dumps(tx, sort_keys=True, cls=ZKProofEncoder): the keys a          *)
(* transaction may carry, in ascending order, each present key followed by *)
(* the encoding of its value.  A point stands for its two coordinates.     *)
(***************************************************************************)
SortedKeys ==
    <<"amount", "amount_proof", "balance_proof", "ciphertext_c1",
      "ciphertext_c2", "public_keys", "recipient", "recipient_address",
      "ring_signature", "sender", "sender_address", "signature",
      "stealth_P", "stealth_R", "timestamp", "tx_id">>

EncodeBitProof(pd) == <<pd.t0, pd.t1, pd.c, pd.c0, pd.c1, pd.s0, pd.s1>>

EncodeRangeProof(proof) ==
    <<proof.commitment, proof.range[1], proof.range[2]>>
    \o proof.bit_commitments
    \o Flatten([i \in 1..Len(proof.bit_proofs) |-> EncodeBitProof(proof.bit_proofs[i])])
    \o <<proof.sum_proof.t, proof.sum_proof.c, proof.sum_proof.s>>

EncodeEqualityProof(proof) ==
    <<proof.R1, proof.R2, proof.R3, proof.c, proof.sv, proof.se, proof.sp>>

EncodeField(key, value) ==
    CASE key \in {"amount", "timestamp", "ciphertext_c1", "ciphertext_c2",
                  "stealth_P", "stealth_R", "balance_proof"} -> <<value>>
      [] key = "amount_proof" ->
            EncodeRangeProof(value.range_proof)
            \o EncodeEqualityProof(value.equality_proof)
      [] key = "signature" -> <<value.R, value.e, value.s>>
      [] key = "ring_signature" -> <<value.c0>> \o value.s
      [] OTHER -> value

json_dumps(tx) ==
    <<0 - 1>> \o
    Flatten([i \in 1..Len(SortedKeys) |->
                IF SortedKeys[i] \in DOMAIN tx
                THEN LET enc == EncodeField(SortedKeys[i], tx[SortedKeys[i]])
                     IN <<i, Len(enc)>> \o enc
                ELSE <<>>])

(***************************************************************************)
(* utils/merkle.py                                                         *)
(***************************************************************************)
\* A digest that covers the transaction id only.
hash_transaction_id_only(tx) == sha256(<<0 - 1>> \o tx.tx_id)

hash_transaction(tx) == sha256(json_dumps(tx))

hash_pair(left_hash, right_hash) == sha256(left_hash \o right_hash)

\* A MerkleNode: a leaf has no children.
MerkleNode(h, kids) == [hash_value |-> h, kids |-> kids]

is_leaf(node) == node.kids = <<>>

EmptyRoot == sha256(<<>>)

RECURSIVE _build_tree_recursive(_)
_build_tree_recursive(nodes) ==
    IF Len(nodes) = 1 THEN nodes[1]
    ELSE LET half == (Len(nodes) + 1) \div 2
             new_level ==
                 [j \in 1..half |->
                    LET left  == nodes[2 * j - 1]
                        right == IF 2 * j <= Len(nodes) THEN nodes[2 * j] ELSE left
                    IN MerkleNode(hash_pair(left.hash_value, right.hash_value),
                                  <<left, right>>)]
         IN _build_tree_recursive(new_level)

\* MerkleTree(transactions).root; <<>> stands for root = None.
build_tree(transactions) ==
    IF transactions = <<>> THEN <<>>
    ELSE LET leaves0 == [i \in 1..Len(transactions) |->
                           MerkleNode(hash_transaction(transactions[i]), <<>>)]
             leaves  == IF Len(leaves0) % 2 = 1
                        THEN Append(leaves0, leaves0[Len(leaves0)])
                        ELSE leaves0
         IN <<_build_tree_recursive(leaves)>>

get_root_hash(root) == IF root # <<>> THEN root[1].hash_value ELSE EmptyRoot

\* found_path holds <<node, direction>> pairs; direction 1 = 'left', 2 = 'right'.
RECURSIVE GenerateProofFrom(_, _, _, _)
GenerateProofFrom(rpath, i, tx_hash, proof) ==
    IF i > Len(rpath) THEN proof
    ELSE LET node == rpath[i][1]
             dir  == rpath[i][2]
         IN IF dir = 1 /\ node.kids[1].hash_value = tx_hash
            THEN GenerateProofFrom(rpath, i + 1, node.hash_value,
                    Append(proof, [position |-> "right",
                                   hash |-> node.kids[2].hash_value]))
            ELSE IF dir = 2 /\ node.kids[2].hash_value = tx_hash
            THEN GenerateProofFrom(rpath, i + 1, node.hash_value,
                    Append(proof, [position |-> "left",
                                   hash |-> node.kids[1].hash_value]))
            ELSE GenerateProofFrom(rpath, i + 1, tx_hash, proof)

_generate_proof(found_path, tx_hash) ==
    GenerateProofFrom(Reverse(found_path), 1, tx_hash, <<>>)

\* The breadth-first search of get_proof: the nodes of the current level from
\* position i on, the next level collected so far, and the path so far.
RECURSIVE Bfs(_, _, _, _, _)
Bfs(current_nodes, i, next_nodes, found_path, tx_hash) ==
    IF i > Len(current_nodes)
    THEN IF next_nodes = <<>> THEN <<>>
         ELSE Bfs(next_nodes, 1, <<>>, found_path, tx_hash)
    ELSE LET node == current_nodes[i]
         IN IF is_leaf(node) /\ node.hash_value = tx_hash
            THEN _generate_proof(found_path, tx_hash)
            ELSE IF is_leaf(node)
            THEN Bfs(current_nodes, i + 1, next_nodes, found_path, tx_hash)
            ELSE Bfs(current_nodes, i + 1,
                     next_nodes \o <<node.kids[1], node.kids[2]>>,
                     found_path \o <<<<node, 1>>, <<node, 2>>>>,
                     tx_hash)

get_proof(root, transaction) ==
    IF root = <<>> THEN <<>>
    ELSE Bfs(<<root[1]>>, 1, <<>>, <<>>, hash_transaction(transaction))

\* A fold that places every sibling on the right.
RECURSIVE FoldProofRightOnly(_, _, _)
FoldProofRightOnly(current_hash, proof, i) ==
    IF i > Len(proof) THEN current_hash
    ELSE FoldProofRightOnly(hash_pair(current_hash, proof[i].hash), proof, i + 1)

RECURSIVE FoldProof(_, _, _)
FoldProof(current_hash, proof, i) ==
    IF i > Len(proof) THEN current_hash
    ELSE FoldProof(IF proof[i].position = "left"
                   THEN hash_pair(proof[i].hash, current_hash)
                   ELSE hash_pair(current_hash, proof[i].hash),
                   proof, i + 1)

verify_proof(root, tx_hash, proof) ==
    IF proof = <<>> THEN get_root_hash(root) = tx_hash
    ELSE FoldProof(tx_hash, proof, 1) = get_root_hash(root)

(***************************************************************************)
(* blockchain/base.py: Block.verify_transaction.  merkle_tree is the list  *)
(* of transactions the block's tree was built over.                        *)
(***************************************************************************)
Block_verify_transaction(block, transaction) ==
    IF ~(\E i \in 1..Len(block.transactions) : block.transactions[i] = transaction)
    THEN FALSE
    ELSE LET root == build_tree(block.merkle_tree)
         IN verify_proof(root, sha256(json_dumps(transaction)),
                         get_proof(root, transaction))

(***************************************************************************)
(* The curve group, as Z_q: a point is its discrete logarithm base G.      *)
(***************************************************************************)
G == 1

\* H = hash("PEDERSEN_H_GENERATOR") * G: some fixed multiple of G.
H == 2

Scalars == 1..(q - 1)

Points == 0..(q - 1)

PointAdd(P, Q) == (P + Q) % q

PointSub(P, Q) == (P - Q) % q

PointMul(k, P) == (k * P) % q

\* The x-coordinate of a point: P and -P share it; the identity has none.
PointX(P) == IF P = 0 THEN None ELSE IF P <= q - P THEN P ELSE q - P

(***************************************************************************)
(* SHA-256 reduced mod q: a fixed non-linear mixing of the formatted       *)
(* fields, given as a sequence of integers.                                *)
(***************************************************************************)
RECURSIVE Mix(_, _, _)
Mix(data, i, acc) ==
    IF i > Len(data) THEN acc
    ELSE Mix(data, i + 1, (acc * acc + 7 * acc + 31 * data[i] + i + 3) % 1009)

\* Two closing rounds, so that no field enters the result linearly.
MixFinal(acc) ==
    LET a == (acc * acc + 7 * acc + 3) % 1009
    IN (a * a + 7 * a + 3) % 1009

hash_to_scalar(data) == MixFinal(Mix(data, 1, 11)) % q

(***************************************************************************)
(* zkp/zk_pedersen_elgamal.py: Pedersen commitments, bit OR-proofs and the *)
(* range proof.                                                            *)
(***************************************************************************)
pedersen_commit(value, blinding_factor) ==
    PointAdd(PointMul(value, G), PointMul(blinding_factor, H))

BitChallenge(bit_comm, t0, t1) == hash_to_scalar(<<1, bit_comm, t0, t1>>)

\* An OR-proof whose real branch answers the whole challenge c instead of
\* its share of it.
create_bit_proof_whole_challenge(bit_comm, bit, r_bit, rnd) ==
    IF bit = 0
    THEN LET w0 == rnd[1]
             t0 == PointMul(w0, H)
             c1 == rnd[2]
             s1 == rnd[3]
             t1 == PointSub(PointMul(s1, H), PointMul(c1, PointSub(bit_comm, G)))
             c  == BitChallenge(bit_comm, t0, t1)
         IN [t0 |-> t0, t1 |-> t1, c |-> c, c0 |-> (c - c1) % q, c1 |-> c1,
             s0 |-> (w0 + c * r_bit) % q, s1 |-> s1]
    ELSE LET w1 == rnd[1]
             t1 == PointMul(w1, H)
             c0 == rnd[2]
             s0 == rnd[3]
             t0 == PointSub(PointMul(s0, H), PointMul(c0, bit_comm))
             c  == BitChallenge(bit_comm, t0, t1)
         IN [t0 |-> t0, t1 |-> t1, c |-> c, c0 |-> c0, c1 |-> (c - c0) % q,
             s0 |-> s0, s1 |-> (w1 + c * r_bit) % q]

\* rnd = <<w, c_sim, s_sim>>: the nonce of the real branch and the challenge
\* and response of the simulated branch.
create_bit_proof(bit_comm, bit, r_bit, rnd) ==
    IF bit = 0
    THEN LET w0 == rnd[1]
             t0 == PointMul(w0, H)
             c1 == rnd[2]
             s1 == rnd[3]
             t1 == PointSub(PointMul(s1, H), PointMul(c1, PointSub(bit_comm, G)))
             c  == BitChallenge(bit_comm, t0, t1)
             c0 == (c - c1) % q
             s0 == (w0 + c0 * r_bit) % q
         IN [t0 |-> t0, t1 |-> t1, c |-> c, c0 |-> c0, c1 |-> c1,
             s0 |-> s0, s1 |-> s1]
    ELSE LET w1 == rnd[1]
             t1 == PointMul(w1, H)
             c0 == rnd[2]
             s0 == rnd[3]
             t0 == PointSub(PointMul(s0, H), PointMul(c0, bit_comm))
             c  == BitChallenge(bit_comm, t0, t1)
             c1 == (c - c0) % q
             s1 == (w1 + c1 * r_bit) % q
         IN [t0 |-> t0, t1 |-> t1, c |-> c, c0 |-> c0, c1 |-> c1,
             s0 |-> s0, s1 |-> s1]

\* The two branch equations of the OR-proof, as verify_range_proof checks them.
BitBranchesHold(bit_comm, pd) ==
    /\ PointSub(PointMul(pd.s0, H), PointMul(pd.c0, bit_comm)) = pd.t0
    /\ PointSub(PointAdd(PointMul(pd.s1, H), PointMul(pd.c1, G)),
                PointMul(pd.c1, bit_comm)) = pd.t1

BitProofHolds(bit_comm, pd) ==
    /\ (pd.c0 + pd.c1) % q = pd.c
    /\ BitChallenge(bit_comm, pd.t0, pd.t1) = pd.c
    /\ BitBranchesHold(bit_comm, pd)

RECURSIVE bit_length(_)
bit_length(n) == IF n = 0 THEN 0 ELSE 1 + bit_length(n \div 2)

RECURSIVE Pow2(_)
Pow2(i) == IF i = 0 THEN 1 ELSE 2 * Pow2(i - 1)

\* bit i (from 0) of a non-negative integer
BitOf(n, i) == (n \div Pow2(i)) % 2

RECURSIVE WeightedSum(_, _)
\* sum over i of 2^(i-1) * xs[i], mod q
WeightedSum(xs, i) ==
    IF i > Len(xs) THEN 0
    ELSE (Pow2(i - 1) * xs[i] + WeightedSum(xs, i + 1)) % q

SumChallenge(commitment, t_sum) == hash_to_scalar(<<2, commitment, t_sum>>)

\* The proof range_proof builds once its inputs are accepted: blinding opens
\* commitment to v, bit_blindings[i] and bit_rnd[i] are the draws of bit i-1,
\* w_sum is the nonce of the linking proof.
BuildRangeProof(v, min_val, max_val, commitment, blinding, bit_blindings, bit_rnd, w_sum) ==
    LET shifted_value == v - min_val
        n_bits == bit_length(max_val - min_val)
        bits == [i \in 1..n_bits |-> BitOf(shifted_value, i - 1)]
        bit_commitments ==
            [i \in 1..n_bits |-> pedersen_commit(bits[i], bit_blindings[i])]
        bit_proofs ==
            [i \in 1..n_bits |->
                create_bit_proof(bit_commitments[i], bits[i], bit_blindings[i],
                                 bit_rnd[i])]
        weighted_blinding == WeightedSum(bit_blindings, 1)
        blinding_diff == (blinding - weighted_blinding) % q
        t_sum == PointMul(w_sum, H)
        c_sum == SumChallenge(commitment, t_sum)
        s_sum == (w_sum + c_sum * blinding_diff) % q
    IN [commitment |-> commitment,
        range |-> <<min_val, max_val>>,
        bit_commitments |-> bit_commitments,
        bit_proofs |-> bit_proofs,
        sum_proof |-> [t |-> t_sum, c |-> c_sum, s |-> s_sum]]

ValueError == [error |-> "ValueError"]

IsError(result) == "error" \in DOMAIN result

\* range_proof without the comparison of a supplied commitment with the
\* commitment to (v, blinding_factor).
range_proof_unchecked(v, min_val, max_val, commitment, blinding_factor, fresh, bit_blindings, bit_rnd, w_sum) ==
    IF ~(min_val <= v /\ v <= max_val) THEN ValueError
    ELSE IF commitment = None
    THEN IF blinding_factor # None THEN ValueError
         ELSE BuildRangeProof(v, min_val, max_val, pedersen_commit(v, fresh),
                              fresh, bit_blindings, bit_rnd, w_sum)
    ELSE IF blinding_factor = None THEN ValueError
    ELSE BuildRangeProof(v, min_val, max_val, commitment, blinding_factor,
                         bit_blindings, bit_rnd, w_sum)

\* range_proof: ValueError or the proof. commitment = None stands for no
\* commitment given, blinding_factor = None for no blinding factor given;
\* fresh is the blinding drawn when the commitment is generated internally.
range_proof(v, min_val, max_val, commitment, blinding_factor, fresh, bit_blindings, bit_rnd, w_sum) ==
    IF ~(min_val <= v /\ v <= max_val) THEN ValueError
    ELSE IF commitment = None
    THEN IF blinding_factor # None THEN ValueError
         ELSE BuildRangeProof(v, min_val, max_val, pedersen_commit(v, fresh),
                              fresh, bit_blindings, bit_rnd, w_sum)
    ELSE IF blinding_factor = None THEN ValueError
    ELSE IF commitment # pedersen_commit(v, blinding_factor) THEN ValueError
    ELSE BuildRangeProof(v, min_val, max_val, commitment, blinding_factor,
                         bit_blindings, bit_rnd, w_sum)

verify_range_proof(proof) ==
    LET commitment == proof.commitment
        min_val == proof.range[1]
        max_val == proof.range[2]
        bit_commitments == proof.bit_commitments
        bit_proofs == proof.bit_proofs
        sum_proof == proof.sum_proof
        n_bits == bit_length(max_val - min_val)
        weighted_commitment == WeightedSum(bit_commitments, 1)
        expected_commitment ==
            PointAdd(weighted_commitment, PointMul(min_val, G))
        diff_commitment == PointSub(commitment, expected_commitment)
    IN /\ Len(bit_commitments) = n_bits
       /\ Len(bit_proofs) = n_bits
       /\ \A i \in 1..n_bits : BitProofHolds(bit_commitments[i], bit_proofs[i])
       /\ SumChallenge(commitment, sum_proof.t) = sum_proof.c
       /\ PointSub(PointMul(sum_proof.s, H),
                   PointMul(sum_proof.c, diff_commitment)) = sum_proof.t

(***************************************************************************)
(* blockchain/base.py: Block and Blockchain.  A block is a record of the   *)
(* fields of to_dict plus merkle_tree.                                     *)
(***************************************************************************)
GenesisPreviousHash == <<0>>

\* json.dumps of index, merkle_root, nonce, previous_hash, timestamp.
calculate_hash(block) ==
    sha256(<<block.index, Len(block.merkle_root)>> \o block.merkle_root
           \o <<block.nonce, Len(block.previous_hash)>> \o block.previous_hash
           \o <<block.timestamp>>)

\* Block.__init__
Block(index, timestamp, transactions, previous_hash, nonce) ==
    LET fields == [index |-> index, timestamp |-> timestamp,
                   transactions |-> transactions,
                   previous_hash |-> previous_hash, nonce |-> nonce,
                   merkle_tree |-> transactions,
                   merkle_root |-> get_root_hash(build_tree(transactions))]
    IN [index |-> index, timestamp |-> timestamp,
        transactions |-> transactions, previous_hash |-> previous_hash,
        nonce |-> nonce, merkle_tree |-> transactions,
        merkle_root |-> fields.merkle_root, hash |-> calculate_hash(fields)]

recalculate_merkle_root(block) ==
    LET rebuilt == [block EXCEPT
                      !.merkle_tree = block.transactions,
                      !.merkle_root = get_root_hash(build_tree(block.transactions))]
    IN [rebuilt EXCEPT !.hash = calculate_hash(rebuilt)]

RECURSIVE SumSeq(_, _, _)
\* the sum of h[lo..hi], by halves
SumSeq(h, lo, hi) ==
    IF lo > hi THEN 0
    ELSE IF lo = hi THEN h[lo]
    ELSE LET mid == (lo + hi) \div 2
         IN SumSeq(h, lo, mid) + SumSeq(h, mid + 1, hi)

\* hash[:difficulty] == '0' * difficulty.  A digest here is not a string of
\* hex digits: its leading digits are read off a checksum of it, one binary
\* digit for each hex digit.
StartsWithZeros(hash, difficulty) == SumSeq(hash, 1, Len(hash)) % Pow2(difficulty) = 0

\* A mining loop that bumps the nonce once and keeps the stored hash.
mine_block_keep_hash(block, difficulty) == [block EXCEPT !.nonce = @ + 1]

RECURSIVE mine_block(_, _)
mine_block(block, difficulty) ==
    IF StartsWithZeros(block.hash, difficulty) THEN block
    ELSE LET bumped == [block EXCEPT !.nonce = @ + 1]
         IN mine_block([bumped EXCEPT !.hash = calculate_hash(bumped)], difficulty)

difficulty == 2

create_genesis_block(timestamp) == Block(0, timestamp, <<>>, GenesisPreviousHash, 0)

get_latest_block(blocks) == blocks[Len(blocks)]

verify_chain(blocks) ==
    \A i \in 2..Len(blocks) :
        LET current_block == blocks[i]
            previous_block == blocks[i - 1]
        IN /\ current_block.hash = calculate_hash(current_block)
           /\ current_block.previous_hash = previous_block.hash
           /\ current_block.merkle_root =
                  get_root_hash(build_tree(current_block.transactions))

\* The addresses that appear in transactions, as sequences of integers.
BLOCKCHAIN_REWARD == <<10>>

COINBASE == <<11>>

\* a plain name such as 'Alice' or 'miner_address'
Name(i) == <<12, i>>

\* f"{pk.x}:{pk.y}"
ZkAddress(pk) == <<13, pk>>

\* f"ring:{view_pk.x}:{view_pk.y}:{spend_pk.x}:{spend_pk.y}"
RingAddress(view_pk, spend_pk) == <<14, view_pk, spend_pk>>

\* f"stealth:{P.x}:{P.y}"
StealthAddress(P) == <<15, P>>

\* `x in list`
InList(tx, txs) == \E i \in 1..Len(txs) : txs[i] = tx

\* tx.get(key) == address
KeyIs(tx, key, address) == key \in DOMAIN tx /\ tx[key] = address

\* Blockchain.scan_for_transactions: the matching entries, in chain order.
RECURSIVE ScanBlock(_, _, _, _)
ScanBlock(block, address, j, found) ==
    IF j > Len(block.transactions) THEN found
    ELSE LET tx == block.transactions[j]
         IN ScanBlock(block, address, j + 1,
               IF KeyIs(tx, "sender", address) \/ KeyIs(tx, "recipient", address)
               THEN Append(found, [block_index |-> block.index,
                                   block_hash |-> block.hash,
                                   transaction |-> tx])
               ELSE found)

RECURSIVE ScanChain(_, _, _, _)
ScanChain(blocks, address, i, found) ==
    IF i > Len(blocks) THEN found
    ELSE ScanChain(blocks, address, i + 1, ScanBlock(blocks[i], address, 1, found))

scan_for_transactions(blocks, address) == ScanChain(blocks, address, 1, <<>>)

(***************************************************************************)
(* zkp/zk_pedersen_elgamal.py: Schnorr signatures, the equality proof and  *)
(* the confidential transaction.                                           *)
(***************************************************************************)
\* hash_to_scalar(f"{pk.x}:{pk.y}:{R.x}:{R.y}:{message}"); a message is the
\* sequence of the fields it is formatted from.
SchnorrChallenge(pk, R, message) == hash_to_scalar(<<5, pk, R>> \o message)

\* A signature whose response leaves the private key out.
schnorr_sign_without_key(sk, message, k) ==
    LET R  == PointMul(k, G)
        pk == PointMul(sk, G)
        e  == SchnorrChallenge(pk, R, message)
    IN [R |-> R, e |-> e, s |-> k]

schnorr_sign(sk, message, k) ==
    LET R  == PointMul(k, G)
        pk == PointMul(sk, G)
        e  == SchnorrChallenge(pk, R, message)
    IN [R |-> R, e |-> e, s |-> (k - e * sk) % q]

schnorr_verify_message(pk, signature, message) ==
    /\ SchnorrChallenge(pk, signature.R, message) = signature.e
    /\ PointAdd(PointMul(signature.s, G), PointMul(signature.e, pk)) = signature.R

EqualityChallenge(ciphertext, commitment, R1, R2, R3) ==
    hash_to_scalar(<<6, ciphertext[1], ciphertext[2], commitment, R1, R2, R3>>)

\* An equality proof that answers for the ElGamal part only: its Pedersen
\* response is the nonce itself.
create_commitment_equality_proof_no_blinding(v, elgamal_randomness, pedersen_blinding, ciphertext, commitment, recipient_pk, rnd) ==
    LET rv == rnd[1]
        re == rnd[2]
        rpb == rnd[3]
        R1 == PointMul(re, G)
        R2 == PointAdd(PointMul(rv, G), PointMul(re, recipient_pk))
        R3 == PointAdd(PointMul(rv, G), PointMul(rpb, H))
        c  == EqualityChallenge(ciphertext, commitment, R1, R2, R3)
    IN [R1 |-> R1, R2 |-> R2, R3 |-> R3, c |-> c,
        sv |-> (rv + c * v) % q,
        se |-> (re + c * elgamal_randomness) % q,
        sp |-> rpb]

\* rnd = <<rv, re, rp>>
create_commitment_equality_proof(v, elgamal_randomness, pedersen_blinding, ciphertext, commitment, recipient_pk, rnd) ==
    LET rv == rnd[1]
        re == rnd[2]
        rpb == rnd[3]
        R1 == PointMul(re, G)
        R2 == PointAdd(PointMul(rv, G), PointMul(re, recipient_pk))
        R3 == PointAdd(PointMul(rv, G), PointMul(rpb, H))
        c  == EqualityChallenge(ciphertext, commitment, R1, R2, R3)
    IN [R1 |-> R1, R2 |-> R2, R3 |-> R3, c |-> c,
        sv |-> (rv + c * v) % q,
        se |-> (re + c * elgamal_randomness) % q,
        sp |-> (rpb + c * pedersen_blinding) % q]

verify_commitment_equality_proof(ciphertext, commitment, recipient_pk, proof) ==
    /\ proof.c = EqualityChallenge(ciphertext, commitment, proof.R1, proof.R2, proof.R3)
    /\ PointSub(PointMul(proof.se, G), PointMul(proof.c, ciphertext[1])) = proof.R1
    /\ PointSub(PointAdd(PointMul(proof.sv, G), PointMul(proof.se, recipient_pk)),
                PointMul(proof.c, ciphertext[2])) = proof.R2
    /\ PointSub(PointAdd(PointMul(proof.sv, G), PointMul(proof.sp, H)),
                PointMul(proof.c, commitment)) = proof.R3

\* The model's bound on amounts, and the limits of src/constants.py scaled
\* to it.
MaxAmount == 3

TX_MIN_AMOUNT == 0

TX_MAX_AMOUNT == MaxAmount

MAX_VALUE_RANGE == MaxAmount

\* The message create_transaction_signature signs when there is no balance
\* proof.
TransactionMessage(recipient_pk, ciphertext, amount_proof) ==
    <<recipient_pk, ciphertext[1], ciphertext[2],
      amount_proof.range_proof.commitment, amount_proof.equality_proof.c>>

create_transaction_signature(sender_sk, recipient_pk, ciphertext, amount_proof, k) ==
    schnorr_sign(sender_sk, TransactionMessage(recipient_pk, ciphertext, amount_proof), k)

\* create_zk_transaction(sender_sk, sender_pk, recipient_pk, amount,
\* sender_balance) with no balance_ciphertext: ValueError, or the
\* transaction.  Every scalar the call draws is the draw r.
create_zk_transaction(sender_sk, sender_pk, recipient_pk, amount, r) ==
    LET recipient_ciphertext ==
            <<PointMul(r, G),
              PointAdd(PointMul(amount, G), PointMul(r, recipient_pk))>>
        amount_commitment == pedersen_commit(amount, r)
        amount_equality_proof ==
            create_commitment_equality_proof(amount, r, r, recipient_ciphertext,
                amount_commitment, recipient_pk, <<r, r, r>>)
        n_bits == bit_length(TX_MAX_AMOUNT - TX_MIN_AMOUNT)
        amount_range_proof ==
            range_proof(amount, TX_MIN_AMOUNT, TX_MAX_AMOUNT, amount_commitment,
                        r, r, [i \in 1..n_bits |-> r],
                        [i \in 1..n_bits |-> <<r, r, r>>], r)
        amount_proof == [range_proof |-> amount_range_proof,
                         equality_proof |-> amount_equality_proof]
    IN IF IsError(amount_range_proof) THEN ValueError
       ELSE [sender_pk |-> sender_pk, recipient_pk |-> recipient_pk,
             ciphertext |-> recipient_ciphertext,
             amount_proof |-> amount_proof,
             balance_proof |-> None,
             signature |-> create_transaction_signature(sender_sk, recipient_pk,
                               recipient_ciphertext, amount_proof, r)]

\* verify_zk_transaction on a transaction dictionary whose balance_proof is
\* None.  An address that does not split into the two coordinates of a
\* point is rejected.
verify_zk_transaction(transaction) ==
    LET ciphertext == <<transaction.ciphertext_c1, transaction.ciphertext_c2>>
        sender_address == transaction.sender_address
        recipient_address == transaction.recipient_address
        amount_proof == transaction.amount_proof
    IN /\ {"ciphertext_c1", "ciphertext_c2"} \subseteq DOMAIN transaction
       /\ ciphertext[1] # 0
       /\ ciphertext[2] # 0
       /\ sender_address = ZkAddress(sender_address[Len(sender_address)])
       /\ recipient_address = ZkAddress(recipient_address[Len(recipient_address)])
       /\ LET sender_pk == sender_address[2]
              recipient_pk == recipient_address[2]
          IN /\ schnorr_verify_message(sender_pk, transaction.signature,
                    TransactionMessage(recipient_pk, ciphertext, amount_proof))
             /\ verify_commitment_equality_proof(ciphertext,
                    amount_proof.range_proof.commitment, recipient_pk,
                    amount_proof.equality_proof)
             /\ verify_range_proof(amount_proof.range_proof)

\* VALUE_POINTS after generate_value_table: x-coordinate of i*G to i.
\* constant_time_decrypt: the table entry of the decrypted point, or None.
constant_time_decrypt(ciphertext, sk) ==
    LET decrypted_point == PointSub(ciphertext[2], PointMul(sk, ciphertext[1]))
        hits == {i \in 0..(MAX_VALUE_RANGE - 1) :
                    PointX(PointMul(i, G)) = PointX(decrypted_point)}
    IN IF hits = {} THEN None
       ELSE CHOOSE i \in hits : \A j \in hits : j <= i

\* hash_to_scalar of the coordinates of the six points of a subtraction
SubtractionHash(pd) ==
    hash_to_scalar(<<8, pd.original_c1, pd.original_c2, pd.amount_c1,
                     pd.amount_c2, pd.result_c1, pd.result_c2>>)

\* create_subtraction_proof: ValueError, or the six points and their hash.
create_subtraction_proof(original_ciphertext, amount_ciphertext, result_ciphertext) ==
    LET expected_c1 == PointSub(original_ciphertext[1], amount_ciphertext[1])
        expected_c2 == PointSub(original_ciphertext[2], amount_ciphertext[2])
        proof_data == [original_c1 |-> original_ciphertext[1],
                       original_c2 |-> original_ciphertext[2],
                       amount_c1 |-> amount_ciphertext[1],
                       amount_c2 |-> amount_ciphertext[2],
                       result_c1 |-> result_ciphertext[1],
                       result_c2 |-> result_ciphertext[2]]
    IN IF result_ciphertext[1] # expected_c1 \/ result_ciphertext[2] # expected_c2
       THEN ValueError
       ELSE [original_c1 |-> proof_data.original_c1,
             original_c2 |-> proof_data.original_c2,
             amount_c1 |-> proof_data.amount_c1,
             amount_c2 |-> proof_data.amount_c2,
             result_c1 |-> proof_data.result_c1,
             result_c2 |-> proof_data.result_c2,
             hash |-> SubtractionHash(proof_data)]

\* verify_subtraction_proof without the comparison of the second components
verify_subtraction_proof_c1_only(proof_data) ==
    /\ proof_data.result_c1 = PointSub(proof_data.original_c1, proof_data.amount_c1)
    /\ SubtractionHash(proof_data) = proof_data.hash

verify_subtraction_proof(proof_data) ==
    /\ proof_data.result_c1 = PointSub(proof_data.original_c1, proof_data.amount_c1)
    /\ proof_data.result_c2 = PointSub(proof_data.original_c2, proof_data.amount_c2)
    /\ SubtractionHash(proof_data) = proof_data.hash

(***************************************************************************)
(* blockchain/zk_integration.py: ZKTransaction.                            *)
(***************************************************************************)
\* sha256(f"{sender_address}:{recipient_address}:{timestamp}")[:16]
_generate_tx_id(sender_address, recipient_address, timestamp) ==
    sha256(<<Len(sender_address)>> \o sender_address
           \o <<Len(recipient_address)>> \o recipient_address \o <<timestamp>>)

\* ZKTransaction(...).to_dict()
ZKTransaction(tx, sender_address, recipient_address, timestamp) ==
    [tx_id |-> _generate_tx_id(sender_address, recipient_address, timestamp),
     sender_address |-> sender_address,
     recipient_address |-> recipient_address,
     ciphertext_c1 |-> tx.ciphertext[1],
     ciphertext_c2 |-> tx.ciphertext[2],
     amount_proof |-> tx.amount_proof,
     balance_proof |-> tx.balance_proof,
     signature |-> tx.signature,
     timestamp |-> timestamp]

(***************************************************************************)
(* schemes/ring_pedersen_elgamal.py: the linear ring signature.  Lists are *)
(* 1-based here; the index hashed into a challenge is the code's 0-based   *)
(* one.                                                                    *)
(***************************************************************************)
\* a message is the sequence of the fields it is formatted from
MessageHash(message) == hash_to_scalar(<<4>> \o message)

RingChallenge(i, message_hash, point) ==
    hash_to_scalar(<<3, i, message_hash, PointX(point)>>)

\* The loop "for i in range(n): if i != signer_idx: ..." from position i on.
\* s_rand[i + 1] is the scalar drawn for member i.
RECURSIVE RingSignLoop(_, _, _, _, _, _, _)
RingSignLoop(i, n, signer_idx, message_hash, public_keys, s_rand, c) ==
    IF i >= n THEN c
    ELSE IF i = signer_idx
    THEN RingSignLoop(i + 1, n, signer_idx, message_hash, public_keys, s_rand, c)
    ELSE RingSignLoop(i + 1, n, signer_idx, message_hash, public_keys, s_rand,
            [c EXCEPT ![((i + 1) % n) + 1] =
                RingChallenge(i, message_hash,
                    PointAdd(PointMul(s_rand[i + 1], G),
                             PointMul(c[i + 1], public_keys[i + 1])))])

\* generate_ring_signature: ValueError, or [c0, s].
generate_ring_signature(message, signer_idx, public_keys, private_key, k, s_rand) ==
    LET n == Len(public_keys)
        message_hash == MessageHash(message)
        signer_point == PointMul(k, G)
        c1 == RingSignLoop(0, n, signer_idx, message_hash, public_keys, s_rand,
                           [i \in 1..n |-> 0])
        c2 == [c1 EXCEPT ![((signer_idx + 1) % n) + 1] =
                  RingChallenge(signer_idx, message_hash, signer_point)]
        s  == [i \in 1..n |->
                 IF i = signer_idx + 1
                 THEN (k - private_key * c2[signer_idx + 1]) % q
                 ELSE s_rand[i]]
    IN IF signer_idx >= n THEN ValueError
       ELSE [c0 |-> c2[1], s |-> s]

RECURSIVE RingVerifyLoop(_, _, _, _, _, _)
RingVerifyLoop(i, n, message_hash, public_keys, s, c) ==
    IF i >= n THEN c
    ELSE RingVerifyLoop(i + 1, n, message_hash, public_keys, s,
            [c EXCEPT ![((i + 1) % n) + 1] =
                RingChallenge(i, message_hash,
                    PointAdd(PointMul(s[i + 1], G),
                             PointMul(c[i + 1], public_keys[i + 1])))])

verify_ring_signature(message, public_keys, signature) ==
    LET n == Len(public_keys)
        c == RingVerifyLoop(0, n, MessageHash(message), public_keys, signature.s,
                            [i \in 1..n |-> IF i = 1 THEN signature.c0 ELSE 0])
    IN c[1] = signature.c0

(***************************************************************************)
(* schemes: stealth addresses and twisted ElGamal encryption.              *)
(***************************************************************************)
\* sha256 of the bytes of shared_secret_point.x, reduced mod q.  The tag is
\* one for which different x-coordinates of a group of order up to 11 get
\* different scalars, as SHA-256 gives them on the curve.
StealthScalar(shared_secret_point) == hash_to_scalar(<<27, PointX(shared_secret_point)>>)

generate_stealth_address(recipient_view_pk, recipient_spend_pk, r) ==
    LET R == PointMul(r, G)
        h == StealthScalar(PointMul(r, recipient_view_pk))
    IN <<R, PointAdd(PointMul(h, G), recipient_spend_pk)>>

\* recover_stealth_address: is P the one-time address that view_sk and
\* spend_pk derive from R?
recover_stealth_address(R, P, view_sk, spend_pk) ==
    LET h == StealthScalar(PointMul(view_sk, R))
        expected_P == PointAdd(PointMul(h, G), spend_pk)
    IN expected_P = P

twisted_elgamal_encrypt(amount, recipient_pk, randomness) ==
    <<PointMul(randomness, G),
      PointAdd(PointMul(amount, G), PointMul(randomness, recipient_pk))>>

TABLE_MAX == MaxAmount

\* LOOKUP_G[i] is the x-coordinate of i*G for i < TABLE_MAX;
\* twisted_elgamal_decrypt returns the first i whose entry is the
\* x-coordinate of the decrypted point, or None.
twisted_elgamal_decrypt(ciphertext, sk) ==
    LET amount_point == PointSub(ciphertext[2], PointMul(sk, ciphertext[1]))
        hits == {i \in 0..(TABLE_MAX - 1) :
                    PointX(PointMul(i, G)) = PointX(amount_point)}
    IN IF hits = {} THEN None
       ELSE CHOOSE i \in hits : \A j \in hits : i <= j

(***************************************************************************)
(* Idle values of the runs a specification does not exercise.              *)
(***************************************************************************)
MerkleIdle == [phase |-> "idle"]

RingIdle == [phase |-> "idle"]

RangeIdle == [phase |-> "idle"]

ZkIdle == [phase |-> "idle"]

\* No ledger: the runs above need none.
LedgerIdle ==
    /\ chain = <<>>
    /\ pending_transactions = <<>>
    /\ mempool = <<>>
    /\ public_keys_registry = <<>>
    /\ wallets = <<>>
    /\ now = 0
    /\ ret = [op |-> "none"]
    /\ listeners = <<>>
    /\ notified = <<>>
    /\ threads = <<>>

(***************************************************************************)
(* Merkle trees: a tree over every short list of transactions, then a      *)
(* proof for one of them, checked for that one and for another one.        *)
(***************************************************************************)
MerkleTxs ==
    {[sender |-> <<1>>, recipient |-> <<2>>, amount |-> 10, tx_id |-> <<1>>],
     [sender |-> <<1>>, recipient |-> <<2>>, amount |-> 999, tx_id |-> <<1>>],
     [sender |-> <<2>>, recipient |-> <<3>>, amount |-> 20, tx_id |-> <<2>>]}

MerkleLists == UNION {[1..n -> MerkleTxs] : n \in 0..MerkleMaxTxs}

MerkleInit ==
    /\ q = 5
    /\ mt \in {[phase |-> "built", txs |-> txs] : txs \in MerkleLists}
    /\ rs = RingIdle
    /\ rp = RangeIdle
    /\ zk = ZkIdle
    /\ LedgerIdle

\* proof = tree.get_proof(txs[i]); tree.verify_proof(hash_transaction(other), proof)
MerkleVerify(i, other) ==
    /\ mt.phase = "built"
    /\ i \in 1..Len(mt.txs)
    /\ LET root  == build_tree(mt.txs)
           proof == get_proof(root, mt.txs[i])
       IN mt' = [phase |-> "verified", txs |-> mt.txs, tx |-> mt.txs[i],
                 other |-> other, proof |-> proof,
                 ok |-> verify_proof(root, hash_transaction(other), proof)]
    /\ UNCHANGED <<q, rs, rp, zk, ledger>>

\* Block(..., transactions = txs, ...).verify_transaction(transaction)
MerkleBlockVerify(transaction) ==
    /\ mt.phase = "built"
    /\ mt' = [phase |-> "block_verified", txs |-> mt.txs, tx |-> transaction,
              ok |-> Block_verify_transaction(
                        [transactions |-> mt.txs, merkle_tree |-> mt.txs],
                        transaction)]
    /\ UNCHANGED <<q, rs, rp, zk, ledger>>

MerkleNext ==
    \/ \E i \in 1..MerkleMaxTxs, other \in MerkleTxs : MerkleVerify(i, other)
    \/ \E transaction \in MerkleTxs : MerkleBlockVerify(transaction)

SpecMerkle == MerkleInit /\ [][MerkleNext]_vars

(***************************************************************************)
(* Ring signatures: every ring of up to RingMaxSize honest keys, every     *)
(* signer position, every draw of the nonce and of the other responses.    *)
(***************************************************************************)
RingMessages == {<<1>>, <<2>>}

RingInputs ==
    UNION {{[sks |-> sks, signer_idx |-> i, message |-> m] :
              sks \in [1..n -> Scalars], i \in 0..(n - 1), m \in RingMessages} :
           n \in 1..RingMaxSize}

RingInit ==
    /\ q = 5
    /\ rs \in {[phase |-> "input", in |-> x] : x \in RingInputs}
    /\ mt = MerkleIdle
    /\ rp = RangeIdle
    /\ zk = ZkIdle
    /\ LedgerIdle

\* generate_ring_signature by the holder of sks[signer_idx], then
\* verify_ring_signature of the result on the same ring and message.
RingSign ==
    /\ rs.phase = "input"
    /\ LET n == Len(rs.in.sks)
           public_keys == [i \in 1..n |-> PointMul(rs.in.sks[i], G)]
       IN \E k \in Scalars, s_rand \in [1..n -> Scalars] :
            /\ s_rand[rs.in.signer_idx + 1] = 1
            /\ LET sig == generate_ring_signature(rs.in.message, rs.in.signer_idx,
                              public_keys, rs.in.sks[rs.in.signer_idx + 1],
                              k, s_rand)
               IN rs' = [phase |-> "signed", in |-> rs.in,
                         public_keys |-> public_keys, signature |-> sig,
                         valid |-> verify_ring_signature(rs.in.message,
                                                         public_keys, sig)]
    /\ UNCHANGED <<q, mt, rp, zk, ledger>>

RingNext == RingSign

SpecRing == RingInit /\ [][RingNext]_vars

(***************************************************************************)
(* Range proofs: inputs drawn from bounded sets, every draw of the random  *)
(* scalars enumerated.                                                     *)
(***************************************************************************)
RangeInputs ==
    {[v |-> v, lo |-> lo, hi |-> hi] :
        v \in 0..RangeMaxHi, lo \in 0..RangeMaxHi, hi \in 0..RangeMaxHi}

\* The range-proof runs are over the group of order 3, the smallest on which
\* G and H differ, so that every draw of every scalar can be enumerated.
RangeInit ==
    /\ q = 3
    /\ rp \in {[phase |-> "input", in |-> i] : i \in RangeInputs}
    /\ mt = MerkleIdle
    /\ rs = RingIdle
    /\ zk = ZkIdle
    /\ LedgerIdle

BitDraws(n) == [1..n -> Scalars \X Scalars \X Scalars]

\* range_proof(v, lo, hi) followed by verify_range_proof of what it returned.
RangeProve ==
    /\ rp.phase = "input"
    /\ LET n == IF rp.in.lo <= rp.in.hi
                THEN bit_length(rp.in.hi - rp.in.lo) ELSE 0
       IN \E fresh \in Scalars, w_sum \in Scalars,
             bit_blindings \in [1..n -> Scalars], bit_rnd \in BitDraws(n) :
            LET res == range_proof(rp.in.v, rp.in.lo, rp.in.hi, None, None,
                                   fresh, bit_blindings, bit_rnd, w_sum)
            IN rp' = [phase |-> "done", in |-> rp.in, supplied |-> FALSE,
                      result |-> res,
                      accepted |-> IF IsError(res) THEN FALSE
                                   ELSE verify_range_proof(res)]
    /\ UNCHANGED <<q, mt, rs, zk, ledger>>

\* The same with a (commitment, blinding_factor) pair supplied by the caller.
RangeProveSupplied ==
    /\ rp.phase = "input"
    /\ LET n == IF rp.in.lo <= rp.in.hi
                THEN bit_length(rp.in.hi - rp.in.lo) ELSE 0
       IN \E blinding_factor \in Scalars \cup {None},
             commitment \in Points \cup {None},
             w_sum \in Scalars,
             bit_blindings \in [1..n -> Scalars], bit_rnd \in BitDraws(n) :
            LET res == range_proof(rp.in.v, rp.in.lo, rp.in.hi, commitment,
                                   blinding_factor, 1, bit_blindings, bit_rnd,
                                   w_sum)
            IN rp' = [phase |-> "done", in |-> rp.in, supplied |-> TRUE,
                      commitment |-> commitment,
                      blinding_factor |-> blinding_factor,
                      result |-> res,
                      accepted |-> IF IsError(res) THEN FALSE
                                   ELSE verify_range_proof(res)]
    /\ UNCHANGED <<q, mt, rs, zk, ledger>>

RangeNext == RangeProve \/ RangeProveSupplied

SpecRange == RangeInit /\ [][RangeNext]_vars

(***************************************************************************)
(* A prover that assembles a range proof itself, by the steps of           *)
(* range_proof after its input checks (lines 216-284), for a value of its  *)
(* own choice and a declared range.  The group has order 5, so that the    *)
(* values 0..RangeMaxHi are committed to by different multiples of G.      *)
(***************************************************************************)
AssembleInit ==
    /\ q = 5
    /\ rp \in {[phase |-> "input", in |-> i] : i \in RangeInputs}
    /\ mt = MerkleIdle
    /\ rs = RingIdle
    /\ zk = ZkIdle
    /\ LedgerIdle

\* One draw serves every bit; the linking proof has its own nonce.  A
\* challenge of 0, which a 192-bit hash gives with negligible probability
\* and a hash into 0..4 once in five, would let any linking proof pass: the
\* draws that lead to it are left out.
RangeAssemble ==
    /\ rp.phase = "input"
    /\ rp.in.lo <= rp.in.hi
    /\ LET n == bit_length(rp.in.hi - rp.in.lo)
       IN \E blinding \in Scalars, r_bit \in Scalars, w_sum \in Scalars,
             rnd \in Scalars \X Scalars \X Scalars :
            LET res == BuildRangeProof(rp.in.v, rp.in.lo, rp.in.hi,
                                       pedersen_commit(rp.in.v, blinding),
                                       blinding, [i \in 1..n |-> r_bit],
                                       [i \in 1..n |-> rnd], w_sum)
            IN /\ res.sum_proof.c # 0
               /\ rp' = [phase |-> "assembled", in |-> rp.in, result |-> res,
                         accepted |-> verify_range_proof(res)]
    /\ UNCHANGED <<q, mt, rs, zk, ledger>>

AssembleNext == RangeAssemble

SpecAssemble == AssembleInit /\ [][AssembleNext]_vars

(***************************************************************************)
(* Encryption, stealth addresses and the proofs about ciphertexts, each    *)
(* run on inputs drawn from bounded sets, in the group of order 7.         *)
(***************************************************************************)
ElGamalInit ==
    /\ q = 7
    /\ zk \in {[phase |-> "input", in |-> [v |-> v, k |-> k, sk |-> sk]] :
                 v \in 0..(q - 1), k \in Scalars, sk \in Scalars}
    /\ mt = MerkleIdle
    /\ rs = RingIdle
    /\ rp = RangeIdle
    /\ LedgerIdle

\* encrypt v under pk = sk*G with randomness k, then decrypt with sk: the
\* decrypted point and what the two table lookups make of it.
ElGamalDecrypt ==
    /\ zk.phase = "input"
    /\ LET pk == PointMul(zk.in.sk, G)
           ciphertext == twisted_elgamal_encrypt(zk.in.v, pk, zk.in.k)
       IN zk' = [phase |-> "decrypted", in |-> zk.in,
                 point |-> PointSub(ciphertext[2],
                                    PointMul(zk.in.sk, ciphertext[1])),
                 value |-> constant_time_decrypt(ciphertext, zk.in.sk),
                 amount |-> twisted_elgamal_decrypt(ciphertext, zk.in.sk)]
    /\ UNCHANGED <<q, mt, rs, rp, ledger>>

ElGamalNext == ElGamalDecrypt

SpecElGamal == ElGamalInit /\ [][ElGamalNext]_vars

\* A stealth address generated for (view_sk*G, spend_sk*G) and scanned by
\* the holder of (other_view_sk, other_spend_sk*G), whose keys differ from
\* the recipient's in the view key, in the spend key, or in neither.
StealthInputs ==
    {in \in [view_sk : Scalars, spend_sk : Scalars, r : Scalars,
             other_view_sk : Scalars, other_spend_sk : Scalars] :
        \/ in.other_view_sk = in.view_sk
        \/ in.other_spend_sk = in.spend_sk}

StealthInit ==
    /\ q = 7
    /\ zk \in {[phase |-> "input", in |-> in] : in \in StealthInputs}
    /\ mt = MerkleIdle
    /\ rs = RingIdle
    /\ rp = RangeIdle
    /\ LedgerIdle

StealthRecover ==
    /\ zk.phase = "input"
    /\ LET address == generate_stealth_address(PointMul(zk.in.view_sk, G),
                           PointMul(zk.in.spend_sk, G), zk.in.r)
       IN zk' = [phase |-> "scanned", in |-> zk.in, address |-> address,
                 recognised |->
                     recover_stealth_address(address[1], address[2],
                         zk.in.other_view_sk,
                         PointMul(zk.in.other_spend_sk, G))]
    /\ UNCHANGED <<q, mt, rs, rp, ledger>>

StealthNext == StealthRecover

SpecStealth == StealthInit /\ [][StealthNext]_vars

\* Subtraction proofs: every choice of the six points and of the hash field,
\* in the group of order 3.
SubtractionInit ==
    /\ q = 3
    /\ zk \in {[phase |-> "input", in |-> in] :
                 in \in [original_c1 : Points, original_c2 : Points,
                         amount_c1 : Points, amount_c2 : Points,
                         result_c1 : Points, result_c2 : Points,
                         hash : 0..(q - 1)]}
    /\ mt = MerkleIdle
    /\ rs = RingIdle
    /\ rp = RangeIdle
    /\ LedgerIdle

\* create_subtraction_proof on the three ciphertexts and, when it returns a
\* proof, verify_subtraction_proof of it.
SubtractionCreate ==
    /\ zk.phase = "input"
    /\ LET res == create_subtraction_proof(
                      <<zk.in.original_c1, zk.in.original_c2>>,
                      <<zk.in.amount_c1, zk.in.amount_c2>>,
                      <<zk.in.result_c1, zk.in.result_c2>>)
       IN zk' = [phase |-> "verified", in |-> zk.in, created |-> TRUE,
                 proof |-> res,
                 accepted |-> IF IsError(res) THEN FALSE
                              ELSE verify_subtraction_proof(res)]
    /\ UNCHANGED <<q, mt, rs, rp, ledger>>

\* verify_subtraction_proof on a proof dictionary put together by its sender.
SubtractionVerify ==
    /\ zk.phase = "input"
    /\ zk' = [phase |-> "verified", in |-> zk.in, created |-> FALSE,
              proof |-> zk.in,
              accepted |-> verify_subtraction_proof(zk.in)]
    /\ UNCHANGED <<q, mt, rs, rp, ledger>>

SubtractionNext == SubtractionCreate \/ SubtractionVerify

SpecSubtraction == SubtractionInit /\ [][SubtractionNext]_vars

\* Equality proofs: a ciphertext and a commitment for v, and a ciphertext
\* and a commitment built independently for other_v, in the group of
\* order 5, under two of its keys.
EqualityKeys == {2, 3}

EqualityInit ==
    /\ q = 5
    /\ zk \in {[phase |-> "input", in |-> in] :
                 in \in [v : 0..MaxAmount, k : Scalars, r : Scalars,
                         sk : EqualityKeys, other_v : 0..MaxAmount,
                         other_k : Scalars, other_r : Scalars]}
    /\ mt = MerkleIdle
    /\ rs = RingIdle
    /\ rp = RangeIdle
    /\ LedgerIdle

\* The proof for (v, k, r), verified against its own ciphertext and
\* commitment, against the other ciphertext, and against the other
\* commitment.  A challenge of 0, which the 192-bit hash gives with
\* negligible probability, would make the responses independent of the
\* statement: the draws that lead to it are left out.
EqualityProve ==
    /\ zk.phase = "input"
    /\ \E rnd \in Scalars \X Scalars \X Scalars :
         LET pk == PointMul(zk.in.sk, G)
             ciphertext == twisted_elgamal_encrypt(zk.in.v, pk, zk.in.k)
             commitment == pedersen_commit(zk.in.v, zk.in.r)
             other_ciphertext ==
                 twisted_elgamal_encrypt(zk.in.other_v, pk, zk.in.other_k)
             other_commitment == pedersen_commit(zk.in.other_v, zk.in.other_r)
             proof == create_commitment_equality_proof(zk.in.v, zk.in.k,
                          zk.in.r, ciphertext, commitment, pk, rnd)
         IN /\ proof.c # 0
            /\ zk' = [phase |-> "proved", in |-> zk.in, proof |-> proof,
                      ciphertext |-> ciphertext, commitment |-> commitment,
                      other_ciphertext |-> other_ciphertext,
                      other_commitment |-> other_commitment,
                      accepted |-> verify_commitment_equality_proof(
                                       ciphertext, commitment, pk, proof),
                      accepted_other_ciphertext |->
                          verify_commitment_equality_proof(
                              other_ciphertext, commitment, pk, proof),
                      accepted_other_commitment |->
                          verify_commitment_equality_proof(
                              ciphertext, other_commitment, pk, proof)]
    /\ UNCHANGED <<q, mt, rs, rp, ledger>>

EqualityNext == EqualityProve

SpecEquality == EqualityInit /\ [][EqualityNext]_vars

\* ZK transactions between every two key pairs of the group of order 7, for
\* every amount and every draw.
ZkTxInit ==
    /\ q = 7
    /\ zk \in {[phase |-> "input", in |-> in] :
                 in \in [sender_sk : Scalars, recipient_sk : Scalars,
                         amount : (0 - 1)..(MaxAmount + 1), r : Scalars]}
    /\ mt = MerkleIdle
    /\ rs = RingIdle
    /\ rp = RangeIdle
    /\ LedgerIdle

\* create_zk_transaction, ZKTransaction(...).to_dict(), verify_zk_transaction:
\* lines 92-103 of send_transaction.
ZkTxBuildVerify ==
    /\ zk.phase = "input"
    /\ LET sender_pk == PointMul(zk.in.sender_sk, G)
           recipient_pk == PointMul(zk.in.recipient_sk, G)
           tx == create_zk_transaction(zk.in.sender_sk, sender_pk,
                                       recipient_pk, zk.in.amount, zk.in.r)
       IN IF IsError(tx)
          THEN zk' = [phase |-> "built", in |-> zk.in, transaction |-> tx,
                      accepted |-> FALSE]
          ELSE LET zk_tx == ZKTransaction(tx, ZkAddress(sender_pk),
                                          ZkAddress(recipient_pk), 1)
               IN zk' = [phase |-> "built", in |-> zk.in,
                         transaction |-> zk_tx,
                         accepted |-> verify_zk_transaction(zk_tx)]
    /\ UNCHANGED <<q, mt, rs, rp, ledger>>

\* create_zk_transaction, lines 623-676: the balance proof it builds when it
\* is given sender_balance and balance_ciphertext, a ciphertext of that
\* balance under the sender's key with randomness kb.  kr is what the call
\* draws for the remaining balance.
ZkTxBalanceProof(sender_balance, kb, kr) ==
    /\ zk.phase = "built"
    /\ ~IsError(zk.transaction)
    /\ LET amount == zk.in.amount
           sender_pk == PointMul(zk.in.sender_sk, G)
           recipient_ciphertext ==
               <<zk.transaction.ciphertext_c1, zk.transaction.ciphertext_c2>>
           balance_ciphertext ==
               <<PointMul(kb, G),
                 PointAdd(PointMul(sender_balance, G), PointMul(kb, sender_pk))>>
           remaining_balance == sender_balance - amount
           remaining_balance_ciphertext ==
               <<PointMul(kr, G),
                 PointAdd(PointMul(remaining_balance, G), PointMul(kr, sender_pk))>>
           balance_commitment == pedersen_commit(remaining_balance, kr)
           n_bits == bit_length(TX_MAX_AMOUNT - TX_MIN_AMOUNT)
           balance_subtraction_proof ==
               create_subtraction_proof(balance_ciphertext, recipient_ciphertext,
                                        remaining_balance_ciphertext)
           balance_proof ==
               IF sender_balance < amount THEN ValueError
               ELSE IF IsError(balance_subtraction_proof) THEN ValueError
               ELSE [remaining_balance_ciphertext |-> remaining_balance_ciphertext,
                     range_proof |->
                         range_proof(remaining_balance, TX_MIN_AMOUNT,
                             TX_MAX_AMOUNT, balance_commitment, kr, kr,
                             [i \in 1..n_bits |-> kr],
                             [i \in 1..n_bits |-> <<kr, kr, kr>>], kr),
                     equality_proof |->
                         create_commitment_equality_proof(remaining_balance,
                             kr, kr, remaining_balance_ciphertext,
                             balance_commitment, sender_pk, <<kr, kr, kr>>),
                     subtraction_proof |-> balance_subtraction_proof]
       IN zk' = [phase |-> "balanced",
                 in |-> [sender_sk |-> zk.in.sender_sk,
                         recipient_sk |-> zk.in.recipient_sk,
                         amount |-> amount, r |-> zk.in.r,
                         sender_balance |-> sender_balance,
                         kb |-> kb, kr |-> kr],
                 balance_proof |-> balance_proof]
    /\ UNCHANGED <<q, mt, rs, rp, ledger>>

ZkTxNext ==
    \/ ZkTxBuildVerify
    \/ \E sender_balance \in 0..MaxAmount, kb \in Scalars, kr \in Scalars :
          ZkTxBalanceProof(sender_balance, kb, kr)

SpecZkTx == ZkTxInit /\ [][ZkTxNext]_vars

(***************************************************************************)
(* The ledger: one state manager with its block chain, two ZK wallets and  *)
(* two ring wallets on it, and clients that use the block chain directly.  *)
(***************************************************************************)
MaxTime == 4

\* listeners registered after the wallets' own
MaxListeners == 2

\* client threads calling the state manager at once
MaxThreads == 3

\* the longest registry the threads build
MaxRegistry == 3

ZkWallets == {"alice", "bob"}

RingWallets == {"carol", "dave"}

\* The key pairs the accounts drew when they were constructed.
Keys ==
    [alice |-> [sk |-> 2], bob |-> [sk |-> 3],
     carol |-> [view_sk |-> 1, spend_sk |-> 4],
     dave |-> [view_sk |-> 5, spend_sk |-> 6]]

\* The deposits made before the first transfer.
InitialBalance == [alice |-> 2, bob |-> 1, carol |-> 2, dave |-> 1]

Address(w) ==
    IF w \in ZkWallets THEN ZkAddress(PointMul(Keys[w].sk, G))
    ELSE RingAddress(PointMul(Keys[w].view_sk, G), PointMul(Keys[w].spend_sk, G))

Miners == {Name(1)}

\* The transactions clients hand to Blockchain.add_transaction directly.
PlainTxs ==
    {[sender |-> Name(2), recipient |-> Name(3), amount |-> 10, tx_id |-> <<1>>],
     [sender |-> Name(3), recipient |-> Name(4), amount |-> 25, tx_id |-> <<2>>]}

Amounts == (0 - 1)..MaxAmount

\* A thread that is in no call.
ThreadIdle == [pc |-> "idle"]

\* The wallets in the order they were constructed: each constructor
\* registers the wallet's _on_block_mined for 'block_mined'.
WalletOrder == <<"alice", "bob", "carol", "dave">>

Init ==
    /\ q = 7
    /\ mt = MerkleIdle
    /\ rs = RingIdle
    /\ rp = RangeIdle
    /\ zk = ZkIdle
    /\ chain = <<create_genesis_block(0)>>
    /\ pending_transactions = <<>>
    /\ mempool = <<>>
    /\ public_keys_registry = <<>>
    /\ wallets =
         [w \in ZkWallets \cup RingWallets |->
            [balance |-> InitialBalance[w],
             transactions |->
                 IF w \in ZkWallets
                 THEN <<[type |-> "deposit", amount |-> InitialBalance[w],
                         timestamp |-> 0]>>
                 ELSE <<>>,
             spent_nullifiers |-> {}]]
    /\ now = 0
    /\ ret = [op |-> "none"]
    /\ listeners = [i \in 1..Len(WalletOrder) |->
                       [event_type |-> "block_mined", callback |-> WalletOrder[i]]]
    /\ notified = <<>>
    /\ threads = [t \in 1..MaxThreads |-> ThreadIdle]

\* Every call reads the clock once, and the clock has moved on since the
\* call before it.
Clock ==
    /\ now < MaxTime
    /\ now' = now + 1

\* A balance check that lets every amount through.
exceeds_balance_never(amount, balance) == FALSE

\* amount > self.get_balance()
exceeds_balance(amount, balance) == amount > balance

\* ZKBlockchainWallet.send_transaction(recipient, amount)
ZkSend(w, recipient, amount, r) ==
    /\ w \in ZkWallets /\ recipient \in ZkWallets /\ recipient # w
    /\ Clock
    /\ LET call == [op |-> "send_transaction", wallet |-> w,
                    recipient |-> recipient, amount |-> amount]
           sk == Keys[w].sk
           tx == create_zk_transaction(sk, PointMul(sk, G),
                     PointMul(Keys[recipient].sk, G), amount, r)
           zk_tx == ZKTransaction(tx, Address(w), Address(recipient), now')
       IN IF exceeds_balance(amount, wallets[w].balance)
          THEN /\ ret' = call @@ [result |-> "false"]
               /\ UNCHANGED <<mempool, wallets>>
          ELSE IF IsError(tx)
          THEN /\ ret' = call @@ [result |-> "ValueError"]
               /\ UNCHANGED <<mempool, wallets>>
          ELSE IF ~verify_zk_transaction(zk_tx)
          THEN /\ ret' = call @@ [result |-> "false"]
               /\ UNCHANGED <<mempool, wallets>>
          ELSE /\ mempool' = Append(mempool, zk_tx)
               /\ wallets' =
                    [wallets EXCEPT
                       ![w].balance = @ - amount,
                       ![w].transactions =
                           Append(@, [type |-> "send", recipient |-> recipient,
                                      recipient_address |-> Address(recipient),
                                      amount |-> amount, tx_id |-> zk_tx.tx_id,
                                      timestamp |-> now'])]
               /\ ret' = call @@ [result |-> "true"]
    /\ UNCHANGED <<q, harness, threads, observers, chain, pending_transactions, public_keys_registry>>

\* BlockchainStateManager.get_random_public_keys(3, exclude): the keys it
\* returns and the registry it leaves.  The keys it generates and the sample
\* it takes are those of the draw r.
get_random_public_keys(n, exclude, r) ==
    LET kept == SelectSeq(public_keys_registry, LAMBDA pk : pk \notin exclude)
        missing == IF Len(kept) < n THEN n - Len(kept) ELSE 0
        generated == [i \in 1..missing |-> PointMul(r, G)]
        available_keys == kept \o generated
    IN [selected |-> [j \in 1..n |->
                        available_keys[((r + j) % Len(available_keys)) + 1]],
        registry |-> public_keys_registry \o generated]

\* RingTransaction(...).to_dict()
RingTransaction(stealth_address, ciphertext, ring_signature, public_keys, sender_address, recipient_address, timestamp) ==
    [tx_id |-> _generate_tx_id(sender_address, recipient_address, timestamp),
     sender_address |-> sender_address,
     recipient_address |-> recipient_address,
     stealth_R |-> stealth_address[1],
     stealth_P |-> stealth_address[2],
     ciphertext_c1 |-> ciphertext[1],
     ciphertext_c2 |-> ciphertext[2],
     ring_signature |-> ring_signature,
     public_keys |-> public_keys,
     timestamp |-> timestamp]

\* RingBlockchainWallet.send_transaction(recipient_wallet, amount)
RingSend(w, recipient, amount, r) ==
    /\ w \in RingWallets /\ recipient \in RingWallets /\ recipient # w
    /\ Clock
    /\ LET call == [op |-> "send_transaction", wallet |-> w,
                    recipient |-> recipient, amount |-> amount]
           recipient_view_pk == PointMul(Keys[recipient].view_sk, G)
           recipient_spend_pk == PointMul(Keys[recipient].spend_sk, G)
           spend_pk == PointMul(Keys[w].spend_sk, G)
           stealth_address ==
               generate_stealth_address(recipient_view_pk, recipient_spend_pk, r)
           ciphertext == twisted_elgamal_encrypt(amount, recipient_view_pk, r)
           message == Address(w) \o StealthAddress(stealth_address[2]) \o <<now'>>
           keys == get_random_public_keys(3, {spend_pk}, r)
           public_keys == Append(keys.selected, spend_pk)
           signer_idx == Len(public_keys) - 1
           ring_signature ==
               generate_ring_signature(message, signer_idx, public_keys,
                   Keys[w].spend_sk, r, [i \in 1..Len(public_keys) |-> r])
           transaction ==
               RingTransaction(stealth_address, ciphertext, ring_signature,
                   public_keys, Address(w), StealthAddress(stealth_address[2]),
                   now')
       IN IF amount <= 0 \/ amount > wallets[w].balance
          THEN /\ ret' = call @@ [result |-> "false"]
               /\ UNCHANGED <<mempool, wallets, public_keys_registry>>
          ELSE /\ public_keys_registry' = keys.registry
               /\ mempool' = Append(mempool, transaction)
               /\ wallets' = [wallets EXCEPT
                                ![w].balance = @ - amount,
                                ![w].transactions = Append(@, transaction)]
               /\ ret' = call @@ [result |-> "true"]
    /\ UNCHANGED <<q, harness, threads, observers, chain, pending_transactions>>

\* BlockchainStateManager.add_transaction(transaction)
StateManagerAddTransaction(transaction) ==
    /\ Clock
    /\ mempool' = Append(mempool, transaction)
    /\ ret' = [op |-> "add_transaction", tx_id |-> transaction.tx_id,
               result |-> "true"]
    /\ UNCHANGED <<q, harness, threads, observers, chain, pending_transactions,
                   public_keys_registry, wallets>>

\* A client submits once more a transaction that is in the mempool.
StateManagerResubmit(i) ==
    /\ i \in 1..Len(mempool)
    /\ StateManagerAddTransaction(mempool[i])

\* Blockchain.add_transaction(transaction)
BlockchainAddTransaction(transaction) ==
    /\ Clock
    /\ pending_transactions' = Append(pending_transactions, transaction)
    /\ ret' = [op |-> "Blockchain.add_transaction", result |-> "true"]
    /\ UNCHANGED <<q, harness, threads, observers, chain, mempool, public_keys_registry, wallets>>

\* A call that leaves out miner_address.
MissingArgument == <<>>

\* A mining that leaves the mined transactions in the pending list.
mine_pending_transactions_keep_pending(blocks, pending, miner_address, timestamp) ==
    IF miner_address = MissingArgument
    THEN [result |-> "TypeError", chain |-> blocks, pending_transactions |-> pending]
    ELSE IF pending = <<>>
    THEN [result |-> "None", chain |-> blocks, pending_transactions |-> pending]
    ELSE LET reward_tx == [sender |-> BLOCKCHAIN_REWARD,
                           recipient |-> miner_address,
                           amount |-> 1, timestamp |-> timestamp]
             latest_block == get_latest_block(blocks)
             block == Block(latest_block.index + 1, timestamp,
                            Append(pending, reward_tx), latest_block.hash, 0)
         IN [result |-> "block",
             chain |-> Append(blocks, mine_block(block, difficulty)),
             pending_transactions |-> pending]

\* Blockchain.mine_pending_transactions(miner_address) at time timestamp:
\* what it returns and the chain and pending list it leaves.
mine_pending_transactions(blocks, pending, miner_address, timestamp) ==
    IF miner_address = MissingArgument
    THEN [result |-> "TypeError", chain |-> blocks, pending_transactions |-> pending]
    ELSE IF pending = <<>>
    THEN [result |-> "None", chain |-> blocks, pending_transactions |-> pending]
    ELSE LET reward_tx == [sender |-> BLOCKCHAIN_REWARD,
                           recipient |-> miner_address,
                           amount |-> 1, timestamp |-> timestamp]
             transactions == Append(pending, reward_tx)
             latest_block == get_latest_block(blocks)
             block == Block(latest_block.index + 1, timestamp, transactions,
                            latest_block.hash, 0)
         IN [result |-> "block",
             chain |-> Append(blocks, mine_block(block, difficulty)),
             pending_transactions |-> <<>>]

\* A client calls Blockchain.mine_pending_transactions(miner_address).
BlockchainMine(miner_address) ==
    /\ Clock
    /\ LET out == mine_pending_transactions(chain, pending_transactions,
                                            miner_address, now')
       IN /\ chain' = out.chain
          /\ pending_transactions' = out.pending_transactions
          /\ ret' = [op |-> "mine_pending_transactions", result |-> out.result]
    /\ UNCHANGED <<q, harness, threads, observers, mempool, public_keys_registry, wallets>>

\* tx.get(key) where the value is a sequence; <<None>> stands for None.
GetSeq(tx, key) == IF key \in DOMAIN tx THEN tx[key] ELSE <<None>>

\* The keys verify_zk_transaction reads before anything can be caught.
ZkKeysPresent(tx) ==
    {"sender_address", "signature", "amount_proof", "balance_proof",
     "recipient_address"} \subseteq DOMAIN tx

\* The loop of ZKBlockchainWallet.scan_for_transactions from entry i on:
\* the account it leaves and how it ended.
RECURSIVE ScanLoop(_, _, _, _, _)
ScanLoop(account, address, sk, entries, i) ==
    IF i > Len(entries) THEN [account |-> account, result |-> "None"]
    ELSE LET tx == entries[i].transaction
             is_coinbase == KeyIs(tx, "sender_address", COINBASE)
             amount == IF "amount" \in DOMAIN tx THEN tx.amount
                       ELSE constant_time_decrypt(
                                <<tx.ciphertext_c1, tx.ciphertext_c2>>, sk)
         IN IF GetSeq(tx, "tx_id") \in account.spent_nullifiers
            THEN ScanLoop(account, address, sk, entries, i + 1)
            ELSE IF ~KeyIs(tx, "recipient_address", address)
            THEN ScanLoop(account, address, sk, entries, i + 1)
            ELSE IF ~is_coinbase /\ ~ZkKeysPresent(tx)
            THEN [account |-> account, result |-> "KeyError"]
            ELSE IF ~is_coinbase /\ ~verify_zk_transaction(tx)
            THEN ScanLoop(account, address, sk, entries, i + 1)
            ELSE IF "amount" \notin DOMAIN tx /\ "ciphertext_c1" \notin DOMAIN tx
            THEN [account |-> account, result |-> "KeyError"]
            ELSE IF amount = None
            THEN [account |-> account, result |-> "TypeError"]
            ELSE ScanLoop(
                    [account EXCEPT
                       !.balance = @ + amount,
                       !.transactions =
                           Append(@, [type |-> "receive",
                                      sender_address |-> GetSeq(tx, "sender_address"),
                                      amount |-> amount,
                                      tx_id |-> GetSeq(tx, "tx_id"),
                                      timestamp |-> tx.timestamp]),
                       !.spent_nullifiers = @ \cup {GetSeq(tx, "tx_id")}],
                    address, sk, entries, i + 1)

\* ZKBlockchainWallet.scan_for_transactions()
ZkScan(w) ==
    /\ w \in ZkWallets
    /\ Clock
    /\ LET found == scan_for_transactions(chain, Address(w))
           out == ScanLoop(wallets[w], Address(w), Keys[w].sk, found, 1)
       IN /\ wallets' = [wallets EXCEPT ![w] = out.account]
          /\ ret' = [op |-> "scan_for_transactions", wallet |-> w,
                     found |-> found, result |-> out.result]
    /\ UNCHANGED <<q, harness, threads, observers, chain, pending_transactions, mempool,
                   public_keys_registry>>

\* The callbacks that raise when they are called.
Faulty == {"faulty"}

\* _notify_listeners(event_type, data): the callbacks it invokes, in the
\* order of registration.  mine_block calls it inside `with self.lock`.
\* callback(data) is called with no try around it: the first callback that
\* raises ends the loop, and its exception leaves _notify_listeners.
_notify_listeners(registered, event_type, data) ==
    LET hits == SelectSeq(registered, LAMBDA l : l.event_type = event_type)
        bad == {i \in 1..Len(hits) : hits[i].callback \in Faulty}
        last == IF bad = {} THEN Len(hits)
                ELSE CHOOSE i \in bad : \A j \in bad : i <= j
    IN [i \in 1..last |->
           [callback |-> hits[i].callback, data |-> data, locked |-> TRUE,
            raised |-> hits[i].callback \in Faulty]]

\* Whether the last of the invocations raised.
Raised(invocations) == invocations # <<>> /\ invocations[Len(invocations)].raised

RECURSIVE RunCallbacks(_, _, _, _)
\* What the invoked callbacks do to the accounts: a ZK wallet's callback is
\* its scan_for_transactions.  The ring wallets' scans and the observers'
\* callbacks are not part of this model.
RunCallbacks(accounts, blocks, invocations, i) ==
    IF i > Len(invocations) THEN accounts
    ELSE LET w == invocations[i].callback
         IN IF w \in ZkWallets
            THEN RunCallbacks(
                     [accounts EXCEPT ![w] =
                         ScanLoop(accounts[w], Address(w), Keys[w].sk,
                                  scan_for_transactions(blocks, Address(w)),
                                  1).account],
                     blocks, invocations, i + 1)
            ELSE RunCallbacks(accounts, blocks, invocations, i + 1)

\* BlockchainStateManager.mine_block(miner_address): the mempool moves to
\* the pending list, the coinbase transaction follows it,
\* mine_pending_transactions is called with no argument, and the listeners
\* for 'block_mined' are notified of the block it returned.
StateManagerMineBlock(miner_address) ==
    /\ Clock
    /\ LET reward_tx ==
               [sender_address |-> COINBASE,
                recipient_address |-> miner_address,
                amount |-> 1, timestamp |-> now',
                tx_id |-> _generate_tx_id(COINBASE, miner_address, now')]
           pending == Append(pending_transactions \o mempool, reward_tx)
           out == mine_pending_transactions(chain, pending, MissingArgument, now')
           invocations ==
               IF out.result = "block"
               THEN _notify_listeners(listeners, "block_mined",
                                      out.chain[Len(out.chain)].index)
               ELSE <<>>
       IN /\ mempool' = <<>>
          /\ chain' = out.chain
          /\ pending_transactions' = out.pending_transactions
          /\ notified' = notified \o invocations
          /\ wallets' = RunCallbacks(wallets, out.chain, invocations, 1)
          /\ ret' = [op |-> "mine_block", miner |-> miner_address,
                     result |-> IF Raised(invocations) THEN "Exception"
                                ELSE out.result]
    /\ UNCHANGED <<q, harness, threads, public_keys_registry, listeners>>

\* BlockchainStateManager.add_listener(event_type, callback)
AddListener(event_type, callback) ==
    /\ Len(listeners) < Len(WalletOrder) + MaxListeners
    /\ listeners' = Append(listeners,
                           [event_type |-> event_type, callback |-> callback])
    /\ ret' = [op |-> "add_listener", result |-> "None"]
    /\ UNCHANGED <<q, harness, threads, chain, pending_transactions, mempool,
                   public_keys_registry, wallets, now, notified>>

MaxDraw == 1

Draws == 1..MaxDraw

Next ==
    \/ \E w \in ZkWallets, recipient \in ZkWallets, amount \in Amounts, r \in Draws :
          ZkSend(w, recipient, amount, r)
    \/ \E w \in RingWallets, recipient \in RingWallets, amount \in Amounts, r \in Draws :
          RingSend(w, recipient, amount, r)
    \/ \E i \in 1..MaxTime : StateManagerResubmit(i)
    \/ \E miner_address \in Miners : StateManagerMineBlock(miner_address)
    \/ \E transaction \in PlainTxs : BlockchainAddTransaction(transaction)
    \/ \E miner_address \in Miners : BlockchainMine(miner_address)
    \/ \E w \in ZkWallets : ZkScan(w)

Spec == Init /\ [][Next]_vars

(***************************************************************************)
(* Tampering: a client mines a chain, then changes the amount of one       *)
(* transaction of a mined block and has the block recompute its Merkle     *)
(* root.                                                                   *)
(***************************************************************************)
TamperedAmount == 999

\* chain[i].transactions[j]['amount'] = TamperedAmount
TamperTransaction(i, j) ==
    /\ i \in 2..Len(chain)
    /\ j \in 1..Len(chain[i].transactions)
    /\ chain[i].transactions[j].amount # TamperedAmount
    /\ chain' = [chain EXCEPT ![i].transactions[j].amount = TamperedAmount]
    /\ ret' = [op |-> "tamper", block |-> i]
    /\ UNCHANGED <<q, harness, threads, observers, pending_transactions, mempool,
                   public_keys_registry, wallets, now>>

\* chain[i].recalculate_merkle_root(), for the block just tampered with
RecalculateMerkleRoot ==
    /\ ret.op = "tamper"
    /\ chain' = [chain EXCEPT ![ret.block] = recalculate_merkle_root(@)]
    /\ ret' = [op |-> "recalculate_merkle_root", block |-> ret.block]
    /\ UNCHANGED <<q, harness, threads, observers, pending_transactions, mempool,
                   public_keys_registry, wallets, now>>

Untouched == ret.op \notin {"tamper", "recalculate_merkle_root"}

\* The client builds the chain before, not after, it tampers with it.
TamperAdd(transaction) == Untouched /\ BlockchainAddTransaction(transaction)

TamperMine(miner_address) == Untouched /\ BlockchainMine(miner_address)

TamperOnce(i, j) == Untouched /\ TamperTransaction(i, j)

TamperNext ==
    \/ \E transaction \in PlainTxs : TamperAdd(transaction)
    \/ \E miner_address \in Miners : TamperMine(miner_address)
    \/ \E i \in 2..(MaxTime + 1), j \in 1..MaxTime : TamperOnce(i, j)
    \/ RecalculateMerkleRoot

SpecTamper == Init /\ [][TamperNext]_vars

(***************************************************************************)
(* Serialization: a client saves the chain with to_dict and loads it back  *)
(* with from_dict, before or after tampering with it.                      *)
(***************************************************************************)
\* Block.to_dict: the tree is left out.
Block_to_dict(block) ==
    [index |-> block.index, timestamp |-> block.timestamp,
     transactions |-> block.transactions,
     previous_hash |-> block.previous_hash, nonce |-> block.nonce,
     merkle_root |-> block.merkle_root, hash |-> block.hash]

\* A from_dict that keeps the root and the hash the constructor computed.
Block_from_dict_recomputed(data) ==
    Block(data.index, data.timestamp, data.transactions, data.previous_hash,
          data.nonce)

\* Block.from_dict: the constructor builds the tree, the root and the hash
\* from the transactions; the stored root and hash then replace them.
Block_from_dict(data) ==
    LET block == Block(data.index, data.timestamp, data.transactions,
                       data.previous_hash, data.nonce)
        rooted == IF "merkle_root" \in DOMAIN data
                  THEN [block EXCEPT !.merkle_root = data.merkle_root]
                  ELSE recalculate_merkle_root(block)
    IN [rooted EXCEPT !.hash = data.hash]

\* Blockchain.to_dict
Blockchain_to_dict(blocks, pending, level) ==
    [chain |-> [i \in 1..Len(blocks) |-> Block_to_dict(blocks[i])],
     pending_transactions |-> pending, difficulty |-> level]

\* Blockchain.from_dict
Blockchain_from_dict(data) ==
    [chain |-> [i \in 1..Len(data.chain) |-> Block_from_dict(data.chain[i])],
     pending_transactions |-> data.pending_transactions,
     difficulty |-> data.difficulty]

\* blockchain = Blockchain.from_dict(blockchain.to_dict())
Reload ==
    /\ ret.op # "from_dict"
    /\ LET data == Blockchain_to_dict(chain, pending_transactions, difficulty)
           loaded == Blockchain_from_dict(data)
       IN /\ chain' = loaded.chain
          /\ pending_transactions' = loaded.pending_transactions
          /\ ret' = [op |-> "from_dict", saved |-> chain,
                     saved_pending |-> pending_transactions,
                     difficulty |-> loaded.difficulty]
    /\ UNCHANGED <<q, harness, threads, observers, mempool, public_keys_registry,
                   wallets, now>>

\* The transactions of the blocks whose tx.get('tx_id') is tx_id, as pairs
\* of the block's and the transaction's place.
TxIdHits(blocks, tx_id) ==
    UNION {{<<b, i>> : i \in {j \in 1..Len(blocks[b].transactions) :
                                 GetSeq(blocks[b].transactions[j], "tx_id") = tx_id}} :
           b \in 1..Len(blocks)}

\* A lookup that takes the match for valid without the Merkle proof.
Blockchain_verify_transaction_unproved(blocks, tx_id) ==
    LET hits == TxIdHits(blocks, tx_id)
    IN IF hits = {} THEN [is_valid |-> FALSE, block_index |-> None, tx_index |-> None]
       ELSE LET first == CHOOSE h \in hits : \A g \in hits :
                             h[1] < g[1] \/ (h[1] = g[1] /\ h[2] <= g[2])
            IN [is_valid |-> TRUE, block_index |-> blocks[first[1]].index,
                tx_index |-> first[2] - 1]

\* Blockchain.verify_transaction(tx_id): the first match in chain order, and
\* what its block's verify_transaction says of it.
Blockchain_verify_transaction(blocks, tx_id) ==
    LET hits == TxIdHits(blocks, tx_id)
    IN IF hits = {} THEN [is_valid |-> FALSE, block_index |-> None, tx_index |-> None]
       ELSE LET first == CHOOSE h \in hits : \A g \in hits :
                             h[1] < g[1] \/ (h[1] = g[1] /\ h[2] <= g[2])
                block == blocks[first[1]]
            IN [is_valid |-> Block_verify_transaction(
                                 block, block.transactions[first[2]]),
                block_index |-> block.index, tx_index |-> first[2] - 1]

\* The tx_ids clients look up: those of PlainTxs and one no transaction has.
LookupIds == {tx.tx_id : tx \in PlainTxs} \cup {<<3>>}

\* A client calls blockchain.verify_transaction(tx_id).
VerifyTransaction(tx_id) ==
    /\ ret.op # "verify_transaction"
    /\ LET out == Blockchain_verify_transaction(chain, tx_id)
       IN ret' = [op |-> "verify_transaction", tx_id |-> tx_id,
                  is_valid |-> out.is_valid, block_index |-> out.block_index,
                  tx_index |-> out.tx_index]
    /\ UNCHANGED <<q, harness, threads, observers, chain, pending_transactions, mempool,
                   public_keys_registry, wallets, now>>

ReloadNext ==
    \/ TamperNext
    \/ Reload
    \/ \E tx_id \in LookupIds : VerifyTransaction(tx_id)

SpecReload == Init /\ [][ReloadNext]_vars

(***************************************************************************)
(* Untrusted input: a client puts dicts of its own making on the chain,    *)
(* addressed to a wallet, and the wallet scans.                            *)
(***************************************************************************)
\* The transaction bob's wallet builds to send alice the amount, stamped
\* timestamp, with the 'recipient' key the chain's scan looks at added.
BobToAlice(amount, timestamp) ==
    LET sk == Keys["bob"].sk
        tx == create_zk_transaction(sk, PointMul(sk, G),
                  PointMul(Keys["alice"].sk, G), amount, 1)
    IN ZKTransaction(tx, Address("bob"), Address("alice"), timestamp)
       @@ [recipient |-> Address("alice")]

\* Dicts that name alice as 'recipient' and as 'recipient_address': one
\* without signature and proofs, one from COINBASE with neither an amount
\* nor a ciphertext, one coinbase as mine_block builds it plus 'recipient',
\* bob's transaction of 1, and bob's transaction of 1 with a plaintext
\* 'amount' of MaxAmount added to it.
UntrustedTxs ==
    {BobToAlice(1, 0), BobToAlice(1, 1) @@ [amount |-> MaxAmount]} \cup
    {[tx_id |-> <<4>>, sender_address |-> Address("bob"),
      recipient |-> Address("alice"), recipient_address |-> Address("alice"),
      timestamp |-> 0],
     [tx_id |-> <<5>>, sender_address |-> COINBASE,
      recipient |-> Address("alice"), recipient_address |-> Address("alice"),
      timestamp |-> 0],
     [tx_id |-> <<6>>, sender_address |-> COINBASE, amount |-> 1,
      recipient |-> Address("alice"), recipient_address |-> Address("alice"),
      timestamp |-> 0]}

UntrustedNext ==
    \/ \E transaction \in UntrustedTxs : BlockchainAddTransaction(transaction)
    \/ \E miner_address \in Miners : BlockchainMine(miner_address)
    \/ \E w \in ZkWallets : ZkScan(w)

SpecUntrusted == Init /\ [][UntrustedNext]_vars

(***************************************************************************)
(* Threads: client threads call register_public_key at once.  The method   *)
(* takes no lock, so a thread can be preempted between its membership test *)
(* and its append.                                                         *)
(***************************************************************************)
\* The keys the threads register: the points 2G and 3G.
RegisteredKeys == {2, 3}

\* register_public_key, line 155: `if public_key not in self.public_keys_registry`
RegisterCheck(t, public_key) ==
    /\ threads[t].pc \in {"idle", "returned"}
    /\ Len(public_keys_registry) < MaxRegistry
    /\ threads' = [threads EXCEPT ![t] =
                      [pc |-> IF InList(public_key, public_keys_registry)
                              THEN "returned" ELSE "append",
                       public_key |-> public_key]]
    /\ UNCHANGED <<q, harness, observers, chain, pending_transactions, mempool,
                   public_keys_registry, wallets, now, ret>>

\* register_public_key, line 156: `self.public_keys_registry.append(public_key)`
RegisterAppend(t) ==
    /\ threads[t].pc = "append"
    /\ public_keys_registry' = Append(public_keys_registry, threads[t].public_key)
    /\ threads' = [threads EXCEPT ![t].pc = "returned"]
    /\ UNCHANGED <<q, harness, observers, chain, pending_transactions, mempool,
                   wallets, now, ret>>

ThreadsNext ==
    \/ \E t \in 1..MaxThreads, public_key \in RegisteredKeys :
          RegisterCheck(t, public_key)
    \/ \E t \in 1..MaxThreads : RegisterAppend(t)

SpecThreads == Init /\ [][ThreadsNext]_vars

(***************************************************************************)
(* Listeners: clients register callbacks, submit transactions to the state *)
(* manager and have it mine.                                               *)
(***************************************************************************)
EventTypes == {"block_mined", "transaction_added"}

Observers == {"observer1", "observer2"} \cup Faulty

ListenerSubmit(transaction) == StateManagerAddTransaction(transaction)

ListenerMine(miner_address) == StateManagerMineBlock(miner_address)

\* _notify_listeners(event_type, data), called for a block of the chain.
ListenerNotify(event_type, data) ==
    /\ \E i \in 1..Len(chain) : chain[i].index = data
    /\ Clock
    /\ LET invocations == _notify_listeners(listeners, event_type, data)
       IN /\ notified' = notified \o invocations
          /\ wallets' = RunCallbacks(wallets, chain, invocations, 1)
          /\ ret' = [op |-> "_notify_listeners", event_type |-> event_type,
                     result |-> IF Raised(invocations) THEN "Exception"
                                ELSE "None"]
    /\ UNCHANGED <<q, harness, threads, chain, pending_transactions, mempool,
                   public_keys_registry, listeners>>

ListenerNext ==
    \/ \E event_type \in EventTypes, callback \in Observers :
          AddListener(event_type, callback)
    \/ \E transaction \in PlainTxs : ListenerSubmit(transaction)
    \/ \E miner_address \in Miners : ListenerMine(miner_address)
    \/ \E event_type \in EventTypes, data \in 0..MaxTime :
          ListenerNotify(event_type, data)

SpecListeners == Init /\ [][ListenerNext]_vars

(***************************************************************************)
(* Claims about the ledger (Spec, SpecTamper).                             *)
(***************************************************************************)
\* C1: after any sequence of add_transaction and mining calls on a fresh
\* chain, verify_chain is true: every non-genesis block's stored hash is its
\* recomputed hash, its previous_hash is the hash of the block before it,
\* and its merkle_root is the Merkle root of its transactions.
ChainVerifies == verify_chain(chain)

\* Two blocks mined one after the other, each with a transaction and the
\* miner's reward.
ChainVerifiesWitness ==
    /\ Len(chain) = 3
    /\ Len(chain[2].transactions) = 2
    /\ Len(chain[3].transactions) = 2
    /\ chain[3].previous_hash = chain[2].hash
    /\ ret.op = "mine_pending_transactions"
    /\ verify_chain(chain)

RECURSIVE SentAmount(_, _, _)
\* the total of the 'send' entries of a history that go to recipient
SentAmount(history, recipient, k) ==
    IF k > Len(history) THEN 0
    ELSE (IF history[k].type = "send" /\ history[k].recipient = recipient
          THEN history[k].amount ELSE 0)
         + SentAmount(history, recipient, k + 1)

SentBy(w) ==
    LET other == CHOOSE o \in ZkWallets : o # w
    IN SentAmount(wallets[w].transactions, other, 1)

SentTo(w) ==
    LET other == CHOOSE o \in ZkWallets : o # w
    IN SentAmount(wallets[other].transactions, w, 1)

\* C2: once a ZK wallet's transfers have gone through mine_block and the
\* wallets have scanned, the recipient's balance is up by exactly the
\* amounts sent to it and the sender's is down by exactly the amounts it
\* sent.  Every accepted transfer sits in the mempool until mine_block
\* takes it, so an empty mempool means mine_block has been called since.
TransfersSettle ==
    (ret.op = "scan_for_transactions" /\ mempool = <<>>)
    => wallets[ret.wallet].balance =
          InitialBalance[ret.wallet] + SentTo(ret.wallet) - SentBy(ret.wallet)

\* every transaction the chain or the pending list holds
RECURSIVE BlockTxs(_, _)
BlockTxs(blocks, i) ==
    IF i > Len(blocks) THEN <<>>
    ELSE blocks[i].transactions \o BlockTxs(blocks, i + 1)

Occurrences(txs, tx_id) ==
    Cardinality({k \in 1..Len(txs) : GetSeq(txs[k], "tx_id") = tx_id})

Credits(w, tx_id) ==
    Cardinality({k \in 1..Len(wallets[w].transactions) :
                    /\ wallets[w].transactions[k].type = "receive"
                    /\ wallets[w].transactions[k].tx_id = tx_id})

\* C3: a ZK transaction submitted to the mempool twice is admitted both
\* times, and after mine_block and the recipient's scan the recipient has
\* credited its tx_id exactly once.
DuplicateCreditedOnce ==
    /\ ret.op = "add_transaction" => ret.result = "true"
    /\ (ret.op = "scan_for_transactions" /\ mempool = <<>>)
       => \A s \in ZkWallets :
            \A k \in 1..Len(wallets[s].transactions) :
               LET entry == wallets[s].transactions[k]
               IN (/\ entry.type = "send"
                   /\ entry.recipient = ret.wallet
                   /\ Occurrences(pending_transactions \o BlockTxs(chain, 1),
                                  entry.tx_id) >= 2)
                  => Credits(ret.wallet, entry.tx_id) = 1

\* C4: ZKBlockchainWallet.send_transaction with an amount above the
\* sender's balance returns false, adds nothing to the mempool and leaves
\* the sender's balance and transaction history as they were.
ZkOverdraftRejected ==
    [][(/\ ret'.op = "send_transaction"
        /\ now' # now
        /\ ret'.wallet \in ZkWallets
        /\ ret'.amount > wallets[ret'.wallet].balance)
       => (/\ ret'.result = "false"
           /\ mempool' = mempool
           /\ wallets' = wallets)]_vars

\* An overdraft within the transfer limit, refused while an earlier
\* transfer waits in the mempool.
ZkOverdraftRejectedWitness ==
    /\ ret.op = "send_transaction"
    /\ ret.wallet \in ZkWallets
    /\ ret.amount > wallets[ret.wallet].balance
    /\ ret.amount <= TX_MAX_AMOUNT
    /\ ret.result = "false"
    /\ Len(mempool) >= 1
    /\ Len(wallets[ret.wallet].transactions) >= 2

\* C5: a wallet send of an amount <= 0 is rejected by both wallet variants:
\* send_transaction returns false, nothing is added to the mempool and no
\* balance changes.
NonPositiveAmountRejected ==
    [][(/\ ret'.op = "send_transaction"
        /\ now' # now
        /\ ret'.amount <= 0)
       => (/\ ret'.result = "false"
           /\ mempool' = mempool
           /\ \A w \in DOMAIN wallets : wallets'[w].balance = wallets[w].balance)]_vars

\* C6: after a transaction of any non-genesis block of a mined chain is
\* changed and that block's recalculate_merkle_root is called, verify_chain
\* is false, also when the block is the last of the chain.
TamperDetected ==
    ret.op = "recalculate_merkle_root" => ~verify_chain(chain)

(***************************************************************************)
(* Claims about the Merkle tree (SpecMerkle).                              *)
(***************************************************************************)
\* C7: for every non-empty transaction list, odd or even, with or without
\* duplicates, and every transaction of the list, the proof get_proof
\* returns for it verifies against the hash of that transaction.
MerkleProofRoundTrip ==
    (mt.phase = "verified" /\ mt.other = mt.tx) => mt.ok

\* A list of odd length with a repeated transaction, a proof of two or more
\* steps for one of its members, verified.
MerkleProofRoundTripWitness ==
    /\ mt.phase = "verified"
    /\ mt.other = mt.tx
    /\ Len(mt.txs) = 5
    /\ mt.txs[1] = mt.txs[3]
    /\ mt.tx = mt.txs[5]
    /\ Len(mt.proof) >= 3
    /\ mt.ok

\* C8: a proof obtained for one transaction does not verify for the hash of
\* a transaction that differs from it in some field, and
\* Block.verify_transaction is false for every transaction that is not one
\* of the block's.
MerkleTamperDetected ==
    /\ (mt.phase = "verified" /\ mt.other # mt.tx) => ~mt.ok
    /\ (mt.phase = "block_verified" /\ ~InList(mt.tx, mt.txs)) => ~mt.ok

\* The proof of a transaction checked against the same transaction with its
\* amount changed to 999, and rejected.
MerkleTamperDetectedWitness ==
    /\ mt.phase = "verified"
    /\ Len(mt.txs) >= 3
    /\ mt.tx.amount = 10
    /\ mt.other = [mt.tx EXCEPT !.amount = 999]
    /\ ~mt.ok

(***************************************************************************)
(* Claims about the ring signature (SpecRing).                             *)
(***************************************************************************)
\* C9: for every ring size n >= 1, every signer position and every message,
\* the signature generate_ring_signature returns for the holder of
\* public_keys[signer_idx] is accepted by verify_ring_signature.
RingHonestSignatureAccepted ==
    rs.phase = "signed" => rs.valid

(***************************************************************************)
(* Claims about the range proof (SpecRange).                               *)
(***************************************************************************)
\* C10: for every range [lo, hi], every v in it and every draw of the
\* blinding and nonce scalars, range_proof returns a proof that
\* verify_range_proof accepts, both with the commitment generated
\* internally and with a matching (commitment, blinding_factor) supplied.
RangeProofRoundTrip ==
    (/\ rp.phase = "done"
     /\ rp.in.lo <= rp.in.v
     /\ rp.in.v <= rp.in.hi
     /\ \/ ~rp.supplied
        \/ /\ rp.blinding_factor # None
           /\ rp.commitment = pedersen_commit(rp.in.v, rp.blinding_factor))
    => (~IsError(rp.result) /\ rp.accepted)

\* A two-bit proof over a range that does not start at 0, for a supplied
\* commitment, accepted.
RangeProofRoundTripWitness ==
    /\ rp.phase = "done"
    /\ rp.supplied
    /\ rp.in.lo = 1
    /\ rp.in.hi = 3
    /\ rp.in.v = 3
    /\ ~IsError(rp.result)
    /\ Len(rp.result.bit_proofs) = 2
    /\ rp.accepted

\* C11: range_proof(v, lo, hi) with v outside [lo, hi] returns no proof but
\* raises ValueError, and so does a commitment supplied without its
\* blinding factor, a blinding factor supplied without a commitment, and a
\* supplied commitment that is not the commitment to (v, blinding_factor).
RangeProofInputErrors ==
    (/\ rp.phase = "done"
     /\ \/ rp.in.v < rp.in.lo
        \/ rp.in.v > rp.in.hi
        \/ /\ rp.supplied
           /\ \/ rp.commitment # None /\ rp.blinding_factor = None
              \/ rp.commitment = None /\ rp.blinding_factor # None
              \/ /\ rp.commitment # None
                 /\ rp.blinding_factor # None
                 /\ rp.commitment # pedersen_commit(rp.in.v, rp.blinding_factor))
    => rp.result = ValueError

\* A value inside its range, with a blinding factor and a commitment that
\* is not the one they open, refused.
RangeProofInputErrorsWitness ==
    /\ rp.phase = "done"
    /\ rp.supplied
    /\ rp.in.lo <= rp.in.v
    /\ rp.in.v <= rp.in.hi
    /\ rp.commitment # None
    /\ rp.blinding_factor # None
    /\ rp.commitment # pedersen_commit(rp.in.v, rp.blinding_factor)
    /\ rp.result = ValueError

\* C12: a range proof that verify_range_proof accepts proves that the
\* committed value lies in the declared range: whatever value the bit
\* commitments, OR-proofs and linking proof were assembled for, acceptance
\* implies lo <= v <= hi, also when hi - lo + 1 is not a power of two.
AcceptedRangeProofIsInRange ==
    (rp.phase = "assembled" /\ rp.accepted)
    => (rp.in.lo <= rp.in.v /\ rp.in.v <= rp.in.hi)

\* C13: for every value v, randomness k and key pair (sk, sk*G), decrypting
\* the encryption of v gives the point v*G, and the table lookup returns v
\* when v is in the table and None for every value outside the table.
ElGamalRoundTrip ==
    zk.phase = "decrypted"
    => /\ zk.point = PointMul(zk.in.v, G)
       /\ (zk.in.v < MAX_VALUE_RANGE => zk.value = zk.in.v)
       /\ (zk.in.v < TABLE_MAX => zk.amount = zk.in.v)
       /\ (zk.in.v >= MAX_VALUE_RANGE => zk.value = None)
       /\ (zk.in.v >= TABLE_MAX => zk.amount = None)

\* C14: recover_stealth_address(R, P, view_sk, spend_pk) is true if and
\* only if (R, P) was generated for (view_sk*G, spend_pk): the address is
\* recognised by the keys it was generated for, and by no other view key
\* and no other spend key.
StealthRecognisedIffOwn ==
    zk.phase = "scanned"
    => (zk.recognised <=> (/\ zk.in.other_view_sk = zk.in.view_sk
                           /\ zk.in.other_spend_sk = zk.in.spend_sk))

SubtractionRelation(pd) ==
    /\ pd.result_c1 = PointSub(pd.original_c1, pd.amount_c1)
    /\ pd.result_c2 = PointSub(pd.original_c2, pd.amount_c2)

\* C15 as stated: verify_subtraction_proof(proof) is true if and only if
\* result_c1 = original_c1 - amount_c1 and result_c2 = original_c2 -
\* amount_c2 for the six points the proof carries.
SubtractionVerifiesIffRelation ==
    (zk.phase = "verified" /\ ~IsError(zk.proof))
    => (zk.accepted <=> SubtractionRelation(zk.proof))

\* C15 amended: verify_subtraction_proof(proof) is true if and only if the
\* two differences hold for the six points and the proof's hash field is
\* the hash of those six points; create_subtraction_proof raises ValueError
\* exactly when the differences do not hold, and what it returns is
\* accepted.
SubtractionVerifiesIffRelationAndHash ==
    zk.phase = "verified"
    => /\ ~IsError(zk.proof)
          => (zk.accepted <=> (/\ SubtractionRelation(zk.proof)
                               /\ zk.proof.hash = SubtractionHash(zk.proof)))
       /\ zk.created
          => /\ IsError(zk.proof) <=> ~SubtractionRelation(zk.in)
             /\ ~IsError(zk.proof) => zk.accepted

\* Six points other than the identity with the differences holding and the
\* right hash, put together by hand and accepted.
SubtractionVerifiesWitness ==
    /\ zk.phase = "verified"
    /\ ~zk.created
    /\ SubtractionRelation(zk.proof)
    /\ zk.proof.original_c1 # 0
    /\ zk.proof.amount_c2 # 0
    /\ zk.proof.result_c1 # 0
    /\ zk.proof.result_c2 # 0
    /\ zk.accepted

\* C16: an equality proof created for (v, k, r) with the ciphertext
\* Enc(v; k) and the commitment C(v, r) is accepted for that ciphertext and
\* commitment, and is rejected when the ciphertext, or the commitment, is
\* replaced by a different one built for an independent value.
EqualityProofBindsBoth ==
    zk.phase = "proved"
    => /\ zk.accepted
       /\ zk.other_ciphertext # zk.ciphertext => ~zk.accepted_other_ciphertext
       /\ zk.other_commitment # zk.commitment => ~zk.accepted_other_commitment

\* A proof for a positive value, with the other ciphertext and the other
\* commitment built for another value and both different points.
EqualityProofBindsBothWitness ==
    /\ zk.phase = "proved"
    /\ zk.in.v > 0
    /\ zk.in.other_v # zk.in.v
    /\ zk.other_ciphertext[1] # zk.ciphertext[1]
    /\ zk.other_ciphertext[2] # zk.ciphertext[2]
    /\ zk.other_commitment # zk.commitment
    /\ zk.accepted
    /\ ~zk.accepted_other_ciphertext
    /\ ~zk.accepted_other_commitment

MineBlockTakesMempoolInOrder ==
    [][(ret'.op = "mine_block" /\ now' # now)
       => /\ Len(chain') = Len(chain) + 1
          /\ LET txs == chain'[Len(chain')].transactions
                 n == Len(mempool)
             IN /\ Len(txs) = n + 1
                /\ SubSeq(txs, 1, n) = mempool
                /\ KeyIs(txs[n + 1], "sender_address", COINBASE)
                /\ KeyIs(txs[n + 1], "recipient_address", ret'.miner)
                /\ txs[n + 1].amount = 1]_vars

\* C19 as stated: mine_block called with an empty mempool still appends a
\* new block to the chain, and that block's transactions are the coinbase
\* transaction only.
MineBlockOnEmptyMempool ==
    [][(ret'.op = "mine_block" /\ now' # now /\ mempool = <<>>)
       => /\ Len(chain') = Len(chain) + 1
          /\ LET txs == chain'[Len(chain')].transactions
             IN /\ Len(txs) = 1
                /\ KeyIs(txs[1], "sender_address", COINBASE)]_vars

FaultyListenerContained ==
    [][(ret'.op = "_notify_listeners" /\ now' # now)
       => LET fired == SubSeq(notified', Len(notified) + 1, Len(notified'))
              expected == SelectSeq(listeners,
                                    LAMBDA l : l.event_type = ret'.event_type)
          IN /\ ret'.result = "None"
             /\ Len(fired) = Len(expected)]_vars

\* The transactions stored in the blocks whose sender_address or
\* recipient_address is the address.
AddressedTo(blocks, address) ==
    {tx \in {BlockTxs(blocks, 1)[i] : i \in 1..Len(BlockTxs(blocks, 1))} :
        KeyIs(tx, "sender_address", address) \/ KeyIs(tx, "recipient_address", address)}

\* C22 as stated: scan_for_address(addr), as the wallet's scan calls it with
\* its own address, returns every transaction stored in a block of the
\* chain whose sender_address or recipient_address equals addr, and no
\* other transaction.
ScanForAddressFindsAddressed ==
    ret.op = "scan_for_transactions"
    => {ret.found[i].transaction : i \in 1..Len(ret.found)}
         = AddressedTo(chain, Address(ret.wallet))

\* C23: serialization round-trips.  Every block loaded by from_dict from
\* the to_dict of a block has that block's index, timestamp, transactions,
\* previous_hash, nonce, merkle_root and hash; the loaded chain has the same
\* number of blocks, the same pending transactions and difficulty, and
\* verify_chain answers on it what it answered on the saved chain.
SerializationRoundTrips ==
    ret.op = "from_dict"
    => /\ Len(chain) = Len(ret.saved)
       /\ \A i \in 1..Len(chain) :
             /\ chain[i].index = ret.saved[i].index
             /\ chain[i].timestamp = ret.saved[i].timestamp
             /\ chain[i].transactions = ret.saved[i].transactions
             /\ chain[i].previous_hash = ret.saved[i].previous_hash
             /\ chain[i].nonce = ret.saved[i].nonce
             /\ chain[i].merkle_root = ret.saved[i].merkle_root
             /\ chain[i].hash = ret.saved[i].hash
       /\ pending_transactions = ret.saved_pending
       /\ ret.difficulty = difficulty
       /\ verify_chain(chain) = verify_chain(ret.saved)

\* A chain of two blocks with a pending transaction, one of its
\* transactions changed so that verify_chain is false, saved and loaded.
SerializationRoundTripsWitness ==
    /\ ret.op = "from_dict"
    /\ Len(ret.saved) = 2
    /\ ret.saved_pending # <<>>
    /\ ~verify_chain(ret.saved)
    /\ \E i \in 1..Len(chain) : chain[i].merkle_tree # ret.saved[i].merkle_tree

\* Whether (b, i) is the first place in chain order of a transaction with
\* the tx_id.
FirstWithTxId(blocks, tx_id, b, i) ==
    /\ GetSeq(blocks[b].transactions[i], "tx_id") = tx_id
    /\ \A c \in 1..Len(blocks) : \A j \in 1..Len(blocks[c].transactions) :
          GetSeq(blocks[c].transactions[j], "tx_id") = tx_id
          => (b < c \/ (b = c /\ i <= j))

RegistryHasNoDuplicates ==
    \A i \in 1..Len(public_keys_registry) : \A j \in 1..Len(public_keys_registry) :
        public_keys_registry[i] = public_keys_registry[j] => i = j

\* C26 as stated: whatever dicts the chain holds, the wallet's
\* scan_for_transactions completes without raising (verify_zk_transaction
\* having returned false for the malformed ones, which the scan skips).
ScanNeverRaises ==
    ret.op = "scan_for_transactions" => ret.result = "None"

\* C27 as stated: a failed operation leaves no partial state.  When
\* mine_block raises or returns no block, the mempool, the pending list and
\* the chain are as before the call; when send_transaction returns false or
\* raises, the mempool and the sender's balance and history are as before.
FailedCallLeavesNoPartialState ==
    [][/\ (ret'.op = "mine_block" /\ now' # now /\ ret'.result # "block")
          => /\ mempool' = mempool
             /\ pending_transactions' = pending_transactions
             /\ chain' = chain
       /\ (ret'.op = "send_transaction" /\ now' # now /\ ret'.result # "true")
          => /\ mempool' = mempool
             /\ wallets' = wallets]_vars

\* C28 as stated: every transaction send_transaction builds and accepts
\* carries a balance proof (range, equality and subtraction proof for the
\* remaining balance), and create_zk_transaction given sender_balance >=
\* amount and a ciphertext of that balance builds the balance proof rather
\* than failing.
TransactionCarriesBalanceProof ==
    /\ (zk.phase = "built" /\ zk.accepted) => zk.transaction.balance_proof # None
    /\ (zk.phase = "balanced" /\ zk.in.sender_balance >= zk.in.amount)
          => ~IsError(zk.balance_proof)

\* The transactions of the chain with the tx_id.
ChainTxs(tx_id) ==
    {tx \in {BlockTxs(chain, 1)[i] : i \in 1..Len(BlockTxs(chain, 1))} :
        GetSeq(tx, "tx_id") = tx_id}

\* C29 as stated: what a wallet's scan credits for a transaction that is
\* not from COINBASE is the value its ciphertext decrypts to under the
\* wallet's key, never a plaintext amount field, and the transaction passed
\* verify_zk_transaction.
CreditIsDecryptedAmount ==
    \A w \in ZkWallets : \A i \in 1..Len(wallets[w].transactions) :
        LET entry == wallets[w].transactions[i]
        IN (entry.type = "receive" /\ entry.sender_address # COINBASE)
           => \A tx \in ChainTxs(entry.tx_id) :
                 /\ verify_zk_transaction(tx)
                 /\ entry.amount =
                        constant_time_decrypt(
                            <<tx.ciphertext_c1, tx.ciphertext_c2>>, Keys[w].sk)

\* A transaction a client submitted: it has a tx_id and is not a coinbase.
IsClientTx(tx) == "tx_id" \in DOMAIN tx /\ ~KeyIs(tx, "sender_address", COINBASE)

\* The transactions of the mempool m, the pending list p and the blocks.
Held(m, p, blocks) == m \o p \o BlockTxs(blocks, 1)

\* A call that submitted a transaction and returned true.
Accepted(call) ==
    /\ call.op \in {"send_transaction", "add_transaction", "Blockchain.add_transaction"}
    /\ call.result = "true"

\* C30: no accepted transaction is lost or duplicated.  add_transaction and
\* mine_block each run wholly under the state manager's lock, so every
\* interleaving of concurrent calls is a sequence of whole calls.  In every
\* step the mempool, the pending list and the blocks together hold each
\* submitted transaction as often as before, plus the one transaction of
\* the call when it is a submission that returned true, and the
\* transactions of a block that exists stay those of that block.  (The
\* blocks are those clients mine with Blockchain.mine_pending_transactions.)
NoTransactionLostOrDuplicated ==
    [][LET before == Held(mempool, pending_transactions, chain)
           after == Held(mempool', pending_transactions', chain')
       IN /\ \A k \in 1..Len(before) :
                IsClientTx(before[k])
                => Occurrences(after, before[k].tx_id)
                     >= Occurrences(before, before[k].tx_id)
          /\ Len(SelectSeq(after, IsClientTx))
               = Len(SelectSeq(before, IsClientTx))
                 + (IF now' # now /\ Accepted(ret') THEN 1 ELSE 0)
          /\ \A i \in 1..Len(chain) :
                chain'[i].transactions = chain[i].transactions]_vars

\* A block holds a submitted transaction that went through the mempool and
\* the pending list, and the mempool holds another one.
NoTransactionLostOrDuplicatedWitness ==
    /\ Len(chain) = 2
    /\ \E k \in 1..Len(chain[2].transactions) :
          /\ IsClientTx(chain[2].transactions[k])
          /\ "signature" \in DOMAIN chain[2].transactions[k]
    /\ mempool # <<>>
    /\ pending_transactions = <<>>

=============================================================================
